---- MODULE Spec2Model ----
(***************************************************************************)
(* Ingestion pipeline of the SIPAC "auxiliares contables" loader:          *)
(*   - the sheet reader (app/services/excel_reader.py),                    *)
(*   - the load orchestrator (app/services/data_processor.py).             *)
(* Cell texts are sequences of one-character strings, so that the string   *)
(* operations of the code (strip, upper, "in", split, replace, float) are  *)
(* computed and not assumed.  Amounts are integers counting hundredths.    *)
(***************************************************************************)
EXTENDS Integers, Sequences, FiniteSets, TLC

(***************************************************************************)
(* Text primitives (Python str operations used by the reader)              *)
(***************************************************************************)

\* a missing cell (pandas NaN); every other cell is a sequence of characters
NaN == <<"NaN">>

isna(c) == c = NaN

\* str(x if not pd.isna(x) else "") and fillna("").astype(str)
CellStr(c) == IF isna(c) THEN <<>> ELSE c

Digits == {"0", "1", "2", "3", "4", "5", "6", "7", "8", "9"}

LowerLetters == <<"a", "b", "c", "d", "e", "f", "g", "h", "i", "j", "k", "l", "m",
                  "n", "o", "p", "q", "r", "s", "t", "u", "v", "w", "x", "y", "z">>

UpperLetters == <<"A", "B", "C", "D", "E", "F", "G", "H", "I", "J", "K", "L", "M",
                  "N", "O", "P", "Q", "R", "S", "T", "U", "V", "W", "X", "Y", "Z">>

Letters == {LowerLetters[i] : i \in 1..26} \cup {UpperLetters[i] : i \in 1..26}

UpperTable ==
    [ch \in Letters |->
        IF \E i \in 1..26 : LowerLetters[i] = ch
        THEN UpperLetters[CHOOSE i \in 1..26 : LowerLetters[i] = ch]
        ELSE ch]

LowerTable ==
    [ch \in Letters |->
        IF \E i \in 1..26 : UpperLetters[i] = ch
        THEN LowerLetters[CHOOSE i \in 1..26 : UpperLetters[i] = ch]
        ELSE ch]

UpperChar(ch) == IF ch \in Letters THEN UpperTable[ch] ELSE ch

LowerChar(ch) == IF ch \in Letters THEN LowerTable[ch] ELSE ch

\* str.upper()
Upper(s) == [i \in 1..Len(s) |-> UpperChar(s[i])]

\* str.lower()
Lower(s) == [i \in 1..Len(s) |-> LowerChar(s[i])]

\* sub in s
Contains(s, sub) ==
    \/ Len(sub) = 0
    \/ \E i \in 0..(Len(s) - Len(sub)) :
          s[i + 1] = sub[1] /\ SubSeq(s, i + 1, i + Len(sub)) = sub

\* s.find(sub) + 1 (0 when absent)
FindFirst(s, sub) ==
    IF Contains(s, sub)
    THEN CHOOSE i \in 1..(Len(s) - Len(sub) + 1) :
            /\ SubSeq(s, i, i + Len(sub) - 1) = sub
            /\ \A j \in 1..(i - 1) : s[j] # sub[1] \/ SubSeq(s, j, j + Len(sub) - 1) # sub
    ELSE 0

\* str.strip() (the only whitespace of the modelled cells is the blank)
Strip(s) ==
    IF \A i \in 1..Len(s) : s[i] = " "
    THEN <<>>
    ELSE LET lo == CHOOSE i \in 1..Len(s) :
                      s[i] # " " /\ \A j \in 1..(i - 1) : s[j] = " "
             hi == CHOOSE i \in 1..Len(s) :
                      s[i] # " " /\ \A j \in (i + 1)..Len(s) : s[j] = " "
         IN SubSeq(s, lo, hi)

\* s.replace(ch, "") for every ch of chars
RemoveChars(s, chars) == SelectSeq(s, LAMBDA ch : ch \notin chars)

\* str.isdigit()
IsDigitStr(s) == Len(s) > 0 /\ \A i \in 1..Len(s) : s[i] \in Digits

RECURSIVE JoinCells(_)
\* " ".join(cells)
JoinCells(cells) ==
    IF Len(cells) = 0 THEN <<>>
    ELSE IF Len(cells) = 1 THEN cells[1]
    ELSE cells[1] \o <<" ">> \o JoinCells(Tail(cells))

\* " ".join(row.fillna("").astype(str))
RowText(row) == JoinCells([i \in 1..Len(row) |-> CellStr(row[i])])

(***************************************************************************)
(* Numbers: float(text) and pd.to_numeric(text), in hundredths             *)
(***************************************************************************)

DigitVal(ch) == CHOOSE n \in 0..9 : <<"0", "1", "2", "3", "4", "5", "6", "7", "8", "9">>[n + 1] = ch

RECURSIVE DigitsVal(_)
DigitsVal(s) == IF Len(s) = 0 THEN 0
                ELSE 10 * DigitsVal(SubSeq(s, 1, Len(s) - 1)) + DigitVal(s[Len(s)])

\* The decimal literals of the modelled cells: [+-]? digits [. digits], with at
\* least one digit.  The value is exact when there are at most two fractional
\* digits, which is the case of every amount the model enumerates.
ParseDecimal(s) ==
    LET signed == Len(s) > 0 /\ s[1] \in {"-", "+"}
        body   == IF signed THEN Tail(s) ELSE s
        dot    == FindFirst(body, <<".">>)
        ip     == IF dot = 0 THEN body ELSE SubSeq(body, 1, dot - 1)
        fp     == IF dot = 0 THEN <<>> ELSE SubSeq(body, dot + 1, Len(body))
        wellformed == /\ \A i \in 1..Len(ip) : ip[i] \in Digits
                      /\ \A i \in 1..Len(fp) : fp[i] \in Digits
                      /\ Len(ip) + Len(fp) > 0
        fp2    == SubSeq(fp \o <<"0", "0">>, 1, 2)
        mag    == 100 * DigitsVal(ip) + DigitsVal(fp2)
    IN IF wellformed
       THEN [ok |-> TRUE, value |-> IF signed /\ s[1] = "-" THEN 0 - mag ELSE mag]
       ELSE [ok |-> FALSE, value |-> 0]

(***************************************************************************)
(* Sheet reader: helpers of ExcelReader                                    *)
(***************************************************************************)

\* Python None (for current_cuenta, current_nombre, current_saldo_inicial)
None == <<"None">>

\* truthiness of an Optional[str]: neither None nor ""
Truthy(x) == x # None /\ Len(x) > 0

CuentaMarker == <<"C", "U", "E", "N", "T", "A", " ", "C", "O", "N", "T", "A", "B", "L", "E", ":">>

SaldoInicialMarker == <<"S", "A", "L", "D", "O", " ", "I", "N", "I", "C", "I", "A", "L", " ",
                        "C", "U", "E", "N", "T", "A">>

SkipAcumulado == <<"s", "a", "l", "d", "o", " ", "a", "c", "u", "m", "u", "l", "a", "d", "o">>

SkipFinal == <<"s", "a", "l", "d", "o", " ", "f", "i", "n", "a", "l", " ", "c", "u", "e", "n", "t", "a">>

W_fecha == <<"f", "e", "c", "h", "a">>

W_poliza == <<"p", "o", "l", "i", "z", "a">>

W_saldo == <<"s", "a", "l", "d", "o">>

W_beneficiario == <<"b", "e", "n", "e", "f", "i", "c", "i", "a", "r", "i", "o">>

W_descripcion == <<"d", "e", "s", "c", "r", "i", "p", "c", "i", "o", "n">>

W_no == <<"n", "o", ".">>

\* default of detect_header_row's max_rows
max_rows == 20

\* a variant of detect_header_row that scans every row of the grid: the row
\* limit of C11 tells the two apart
detect_header_row_all(raw) ==
    LET isHeader(idx) ==
            LET row_text == Lower(RowText(raw[idx + 1]))
            IN  /\ Contains(row_text, W_fecha)
                /\ (Contains(row_text, W_poliza) \/ Contains(row_text, W_saldo))
    IN IF \E idx \in 0..(Len(raw) - 1) : isHeader(idx)
       THEN CHOOSE idx \in 0..(Len(raw) - 1) :
               isHeader(idx) /\ \A j \in 0..(idx - 1) : ~isHeader(j)
       ELSE -1

\* detect_header_row: the 0-based index of the header row, -1 for None
detect_header_row(raw) ==
    LET limit == IF max_rows < Len(raw) THEN max_rows ELSE Len(raw)
        isHeader(idx) ==
            LET row_text == Lower(RowText(raw[idx + 1]))
            IN  /\ Contains(row_text, W_fecha)
                /\ (Contains(row_text, W_poliza) \/ Contains(row_text, W_saldo))
    IN IF \E idx \in 0..(limit - 1) : isHeader(idx)
       THEN CHOOSE idx \in 0..(limit - 1) :
               isHeader(idx) /\ \A j \in 0..(idx - 1) : ~isHeader(j)
       ELSE -1

\* ExcelReader._parse_cuenta_line: <<cuenta, nombre>>
parse_cuenta_line(line) ==
    LET colon == FindFirst(line, <<":">>)
    IN IF colon > 0
       THEN LET cuenta_nombre == Strip(SubSeq(line, colon + 1, Len(line)))
                sep == FindFirst(cuenta_nombre, <<" ", "-", " ">>)
            IN IF sep > 0
               THEN << Strip(SubSeq(cuenta_nombre, 1, sep - 1)),
                       Strip(SubSeq(cuenta_nombre, sep + 3, Len(cuenta_nombre))) >>
               ELSE << cuenta_nombre, <<>> >>
       ELSE << <<>>, <<>> >>

\* ExcelReader._extract_saldo_inicial: the first cell that looks like a number
extract_saldo_inicial(row) ==
    LET val(i) == Strip(CellStr(row[i]))
        hit(i) == /\ Len(val(i)) > 0
                  /\ \E k \in 1..Len(val(i)) : val(i)[k] \in Digits
                  /\ IsDigitStr(RemoveChars(val(i), {",", ".", "-"}))
    IN IF \E i \in 1..Len(row) : hit(i)
       THEN val(CHOOSE i \in 1..Len(row) : hit(i) /\ \A j \in 1..(i - 1) : ~hit(j))
       ELSE <<>>

\* is_date_like: the three regular expressions that follow the separator test
\* all require a "/" or a "-", so they accept nothing the test rejected
is_date_like(value) ==
    LET value_str == Strip(CellStr(value))
    IN /\ ~isna(value)
       /\ Len(value_str) > 0
       /\ (Contains(value_str, <<"/">>) \/ Contains(value_str, <<"-">>))

\* a text of the shape dd/dd/dddd
IsSlashDate(s) ==
    /\ Len(s) = 10
    /\ s[3] = "/" /\ s[6] = "/"
    /\ \A i \in {1, 2, 4, 5, 7, 8, 9, 10} : s[i] \in Digits

\* pd.to_datetime(text) without a format reads a/b/yyyy month first and falls
\* back to day first when a is not a month; [ok, day, month, year]
to_datetime_default(s) ==
    LET a == DigitsVal(SubSeq(s, 1, 2))
        b == DigitsVal(SubSeq(s, 4, 5))
    IN IF ~IsSlashDate(s) THEN [ok |-> FALSE, day |-> <<>>, month |-> <<>>, year |-> <<>>]
       ELSE IF a \in 1..12 /\ b \in 1..31
            THEN [ok |-> TRUE, day |-> SubSeq(s, 4, 5), month |-> SubSeq(s, 1, 2), year |-> SubSeq(s, 7, 10)]
       ELSE IF a \in 1..31 /\ b \in 1..12
            THEN [ok |-> TRUE, day |-> SubSeq(s, 1, 2), month |-> SubSeq(s, 4, 5), year |-> SubSeq(s, 7, 10)]
       ELSE [ok |-> FALSE, day |-> <<>>, month |-> <<>>, year |-> <<>>]

\* pd.to_datetime(fecha_raw).strftime("%d/%m/%Y"), the raw text when it fails
format_fecha(fecha_raw) ==
    LET d == to_datetime_default(Strip(fecha_raw))
    IN IF d.ok THEN d.day \o <<"/">> \o d.month \o <<"/">> \o d.year
       ELSE Strip(fecha_raw)

\* upper bound of the analysed columns (range(2, min(len(row), 15)))
MaxAnalyzedCol == 15

\* ExcelReader._analyze_columns
analyze_columns(row) ==
    LET last == IF Len(row) < MaxAnalyzedCol THEN Len(row) ELSE MaxAnalyzedCol
        info(i) ==
            LET val     == Strip(CellStr(row[i + 1]))
                cleaned == RemoveChars(val, {",", " "})
                num     == ParseDecimal(cleaned)
                numeric == Len(val) > 0 /\ num.ok
            IN [idx |-> i,
                value |-> val,
                is_empty |-> Len(val) = 0,
                is_numeric |-> numeric,
                is_monetary |-> numeric /\ (\/ Contains(val, <<",">>)
                                            \/ Contains(cleaned, <<".">>)
                                            \/ val = <<"0">>),
                numeric_value |-> num.value]
    IN [k \in 1..(IF last > 2 THEN last - 2 ELSE 0) |-> info(k + 1)]

RECURSIVE classify_from(_, _)
\* the loop of _classify_columns from the accumulator acc over the columns cols
classify_from(acc, cols) ==
    IF Len(cols) = 0 THEN acc
    ELSE LET col == Head(cols)
             next ==
                IF col.is_empty THEN acc
                ELSE IF col.is_monetary
                     THEN [acc EXCEPT !.monetary_cols = Append(@, col)]
                ELSE IF col.is_numeric /\ ~col.is_monetary
                     THEN IF /\ acc.op_col = <<>>
                             /\ col.numeric_value # 0
                             /\ col.numeric_value % 100 = 0
                          THEN [acc EXCEPT !.op_col = <<col>>]
                          ELSE [acc EXCEPT !.monetary_cols = Append(@, col)]
                ELSE [acc EXCEPT !.text_cols = Append(@, col)]
         IN classify_from(next, Tail(cols))

\* ExcelReader._classify_columns (op_col is <<>> for None, <<col>> otherwise)
classify_columns(col_data) ==
    classify_from([text_cols |-> <<>>, op_col |-> <<>>, monetary_cols |-> <<>>], col_data)

\* ExcelReader._extract_text_fields: <<beneficiario, descripcion>>
extract_text_fields(text_cols) ==
    IF Len(text_cols) >= 2
    THEN << text_cols[1].value,
            JoinCells([i \in 1..(Len(text_cols) - 1) |-> text_cols[i + 1].value]) >>
    ELSE IF Len(text_cols) = 1
    THEN << <<>>, text_cols[1].value >>
    ELSE << <<>>, <<>> >>

\* a variant of _extract_monetary_fields that reads two amounts as debit and
\* credit: the slots of C12 tell the two apart
extract_monetary_fields_debit_first(monetary_cols, current_saldo_inicial) ==
    LET seccion == IF Truthy(current_saldo_inicial) THEN current_saldo_inicial ELSE <<>>
    IN IF Len(monetary_cols) >= 4
       THEN << monetary_cols[1].value, monetary_cols[2].value,
               monetary_cols[3].value, monetary_cols[4].value >>
       ELSE IF Len(monetary_cols) = 3
       THEN << seccion, monetary_cols[1].value, monetary_cols[2].value, monetary_cols[3].value >>
       ELSE IF Len(monetary_cols) = 2
       THEN << seccion, monetary_cols[1].value, monetary_cols[2].value, <<>> >>
       ELSE << <<>>, <<>>, <<>>, <<>> >>

\* ExcelReader._extract_monetary_fields: <<saldo_inicial, cargos, abonos, saldo_final>>
extract_monetary_fields(monetary_cols, current_saldo_inicial) ==
    LET seccion == IF Truthy(current_saldo_inicial) THEN current_saldo_inicial ELSE <<>>
    IN IF Len(monetary_cols) >= 4
       THEN << monetary_cols[1].value, monetary_cols[2].value,
               monetary_cols[3].value, monetary_cols[4].value >>
       ELSE IF Len(monetary_cols) = 3
       THEN << seccion, monetary_cols[1].value, monetary_cols[2].value, monetary_cols[3].value >>
       ELSE IF Len(monetary_cols) = 2
       THEN << seccion, <<>>, monetary_cols[1].value, monetary_cols[2].value >>
       ELSE << <<>>, <<>>, <<>>, <<>> >>

\* ExcelReader._parse_transaction_row: <<record>>, or <<>> for None.
\* fila (the row index) is not a key of the code's dict: it records where the
\* record came from.
parse_transaction_row(row, current_cuenta, current_nombre, current_saldo_inicial, idx) ==
    IF isna(row[1]) \/ Len(row[1]) = 0 THEN <<>>
    ELSE IF ~is_date_like(row[1]) THEN <<>>
    ELSE LET cls == classify_columns(analyze_columns(row))
             txt == extract_text_fields(cls.text_cols)
             mon == extract_monetary_fields(cls.monetary_cols, current_saldo_inicial)
         IN IF Len(cls.monetary_cols) < 2 THEN <<>>
            ELSE << [cuenta_contable |-> current_cuenta,
                     nombre_cuenta   |-> current_nombre,
                     fecha           |-> format_fecha(row[1]),
                     poliza          |-> IF Len(row) > 1 THEN Strip(CellStr(row[2])) ELSE <<>>,
                     beneficiario    |-> txt[1],
                     descripcion     |-> txt[2],
                     orden_pago      |-> IF cls.op_col # <<>> THEN cls.op_col[1].value ELSE <<>>,
                     saldo_inicial   |-> mon[1],
                     cargos          |-> mon[2],
                     abonos          |-> mon[3],
                     saldo_final     |-> mon[4],
                     fila            |-> idx] >>

(***************************************************************************)
(* Sheet reader: the row loop of ExcelReader._extract_transactions         *)
(***************************************************************************)

\* the parse state of the loop before its first row
InitialContext == [cuenta |-> None, nombre |-> None, saldo |-> None, records |-> <<>>]

\* a variant of the loop body without the "if not current_cuenta" test: the
\* active account of C9 tells the two apart
RowBranchAnyRow(ctx, row) ==
    LET first_col == Strip(CellStr(row[1]))
        row_text_upper == Upper(RowText(row))
        row_text  == Lower(RowText(row))
    IN IF Contains(Upper(first_col), CuentaMarker) THEN "cuenta"
       ELSE IF Contains(row_text_upper, SaldoInicialMarker) /\ Truthy(ctx.cuenta) THEN "saldo"
       ELSE IF \/ \A i \in 1..Len(row) : isna(row[i])
               \/ Contains(row_text, SkipAcumulado)
               \/ Contains(row_text, SkipFinal) THEN "skip"
       ELSE "transaccion"

\* which branch of the loop body a row takes
RowBranch(ctx, row) ==
    LET first_col == Strip(CellStr(row[1]))
        row_text_upper == Upper(RowText(row))
        row_text  == Lower(RowText(row))
    IN IF Contains(Upper(first_col), CuentaMarker) THEN "cuenta"
       ELSE IF Contains(row_text_upper, SaldoInicialMarker) /\ Truthy(ctx.cuenta) THEN "saldo"
       ELSE IF \/ \A i \in 1..Len(row) : isna(row[i])
               \/ Contains(row_text, SkipAcumulado)
               \/ Contains(row_text, SkipFinal) THEN "skip"
       ELSE IF ~Truthy(ctx.cuenta) THEN "sin_cuenta"
       ELSE "transaccion"

\* one iteration of the loop body on the row of index idx
ExtractRow(ctx, row, idx) ==
    LET branch == RowBranch(ctx, row)
    IN IF branch = "cuenta"
       THEN LET cn == parse_cuenta_line(Strip(CellStr(row[1])))
            IN [ctx EXCEPT !.cuenta = cn[1], !.nombre = cn[2], !.saldo = None]
       ELSE IF branch = "saldo"
       THEN [ctx EXCEPT !.saldo = extract_saldo_inicial(row)]
       ELSE IF branch = "transaccion"
       THEN [ctx EXCEPT !.records =
                @ \o parse_transaction_row(row, ctx.cuenta, ctx.nombre, ctx.saldo, idx)]
       ELSE ctx

\* start_idx of _extract_transactions: one row is skipped after the header
\* when it is a second header row
StartIdx(raw, header_row_idx) ==
    LET start_idx == header_row_idx + 1
        next_row_text == IF start_idx < Len(raw)
                         THEN Lower(RowText(raw[start_idx + 1])) ELSE <<>>
    IN IF \/ Contains(next_row_text, W_beneficiario)
          \/ Contains(next_row_text, W_descripcion)
          \/ Contains(next_row_text, W_no)
       THEN start_idx + 1 ELSE start_idx

RECURSIVE ExtractFrom(_, _, _)
\* the loop over range(idx, len(raw)) from the parse state ctx
ExtractFrom(raw, idx, ctx) ==
    IF idx >= Len(raw) THEN ctx
    ELSE ExtractFrom(raw, idx + 1, ExtractRow(ctx, raw[idx + 1], idx))

\* ExcelReader._extract_transactions
extract_transactions(raw, header_row_idx) ==
    ExtractFrom(raw, StartIdx(raw, header_row_idx), InitialContext).records

(***************************************************************************)
(* The cells and rows the model reads                                      *)
(***************************************************************************)

T_Fecha == <<"F", "e", "c", "h", "a">>

T_Poliza == <<"P", "o", "l", "i", "z", "a">>

T_Cargos == <<"C", "a", "r", "g", "o", "s">>

T_Abonos == <<"A", "b", "o", "n", "o", "s">>

T_Saldo == <<"S", "a", "l", "d", "o">>

T_No == <<"N", "o", ".">>

T_CuentaA == <<"C", "U", "E", "N", "T", "A", " ", "C", "O", "N", "T", "A", "B", "L", "E", ":",
               " ", "1", "1", " ", "-", " ", "C", "a", "j", "a">>

T_CuentaB == <<"C", "u", "e", "n", "t", "a", " ", "c", "o", "n", "t", "a", "b", "l", "e", ":",
               " ", "2", "2">>

T_SaldoInicial == <<"S", "a", "l", "d", "o", " ", "i", "n", "i", "c", "i", "a", "l", " ",
                    "c", "u", "e", "n", "t", "a">>

T_SaldoFinal == <<"S", "a", "l", "d", "o", " ", "F", "i", "n", "a", "l", " ",
                  "C", "u", "e", "n", "t", "a">>

T_Total == <<"T", "o", "t", "a", "l">>

T_Juan == <<"J", "u", "a", "n">>

T_Pago == <<"P", "a", "g", "o">>

T_P1 == <<"P", "1">>

T_P2 == <<"P", "2">>

T_Date25 == <<"2", "5", "/", "0", "1", "/", "2", "0", "2", "4">>

T_Date05 == <<"0", "5", "/", "0", "1", "/", "2", "0", "2", "4">>

T_DateNA == <<"s", "/", "f">>

T_DateDash == <<"0", "1", "-", "0", "1", "-", "2", "0", "2", "4">>

T_DateCompact == <<"2", "0", "2", "4", "0", "1", "1", "5">>

T_1000 == <<"1", ",", "0", "0", "0", ".", "0", "0">>

T_500 == <<"5", "0", "0", ".", "0", "0">>

T_200 == <<"2", "0", "0", ".", "0", "0">>

T_15 == <<"1", "5", ".", "5", "0">>

T_0 == <<"0">>

T_77 == <<"7", "7">>

T_00 == <<"0", "0">>

R_Header == <<T_Fecha, T_Poliza, NaN, T_Cargos, T_Abonos, T_Saldo>>

R_SubHeader == <<NaN, T_No, NaN, NaN, NaN, NaN>>

R_Empty == <<NaN, NaN, NaN, NaN, NaN, NaN>>

R_CuentaA == <<T_CuentaA, NaN, NaN, NaN, NaN, NaN>>

R_CuentaB == <<T_CuentaB, NaN, NaN, NaN, NaN, NaN>>

R_SaldoInicial == <<NaN, T_SaldoInicial, NaN, NaN, NaN, T_1000>>

\* the opening balance of a section, the day it is taken in column 0
R_SaldoInicialDated == <<T_DateDash, T_SaldoInicial, NaN, NaN, NaN, T_1000>>

R_SaldoFinal == <<NaN, T_SaldoFinal, NaN, NaN, NaN, T_15>>

\* four amounts
R_Tx4 == <<T_Date25, T_P1, T_15, T_200, T_0, T_500>>

\* three amounts, a date pandas cannot read
R_TxNA == <<T_DateNA, T_P1, NaN, T_200, T_0, T_500>>

\* three amounts, a date written without separators
R_TxCompact == <<T_DateCompact, T_P1, T_Juan, T_500, T_0, T_15>>

\* two amounts after two whole numbers, the first of them zero
R_TxZero == <<T_Date25, T_P1, T_00, T_77, T_200, T_15>>

\* three amounts and a beneficiary
R_Tx3 == <<T_Date25, T_P1, T_Juan, T_500, T_0, T_15>>

\* two amounts and a payment order
R_Tx2 == <<T_Date05, T_P2, T_77, T_200, T_15, NaN>>

\* a date and a single amount: not a transaction
R_Tx1 == <<T_Date25, T_P2, T_Pago, NaN, NaN, T_15>>

\* amounts without a date: not a transaction
R_Total == <<T_Total, NaN, NaN, NaN, T_500, T_200>>

(***************************************************************************)
(* File contents and ExcelReader.read_excel_file                           *)
(***************************************************************************)

\* the rows a workbook is made of, by name
RowCells ==
    [name \in {"Header", "SubHeader", "Empty", "CuentaA", "CuentaB", "SaldoInicial",
               "SaldoFinal", "Tx4", "TxNA", "TxCompact", "TxZero", "Tx3", "Tx2", "Tx1", "Total",
               "SaldoInicialDated"} |->
        CASE name = "Header"       -> R_Header
          [] name = "SubHeader"    -> R_SubHeader
          [] name = "Empty"        -> R_Empty
          [] name = "CuentaA"      -> R_CuentaA
          [] name = "CuentaB"      -> R_CuentaB
          [] name = "SaldoInicial" -> R_SaldoInicial
          [] name = "SaldoFinal"   -> R_SaldoFinal
          [] name = "Tx4"          -> R_Tx4
          [] name = "TxNA"         -> R_TxNA
          [] name = "TxCompact"    -> R_TxCompact
          [] name = "TxZero"       -> R_TxZero
          [] name = "SaldoInicialDated" -> R_SaldoInicialDated
          [] name = "Tx3"          -> R_Tx3
          [] name = "Tx2"          -> R_Tx2
          [] name = "Tx1"          -> R_Tx1
          [] name = "Total"        -> R_Total]

RowNames == DOMAIN RowCells

\* A file content: an open buffer holding a workbook (kind "grid", sheet the
\* names of its rows), an open buffer pd.read_excel cannot read (kind
\* "corrupt"), or a buffer whose seek(0) raises, which is outside the try
\* (kind "closed").
GridContent(sheet) == [kind |-> "grid", sheet |-> sheet]

CorruptContent == [kind |-> "corrupt", sheet |-> <<>>]

ClosedContent == [kind |-> "closed", sheet |-> <<>>]

\* pd.read_excel(file_content, header=None, dtype=str) on a readable workbook
pd_read_excel(content) == [i \in 1..Len(content.sheet) |-> RowCells[content.sheet[i]]]

\* ExcelReader.read_excel_file: [raised, df]; df = <<>> is pd.DataFrame()
read_excel_file(content) ==
    IF content.kind = "closed" THEN [raised |-> TRUE, df |-> <<>>]
    ELSE IF content.kind = "corrupt" THEN [raised |-> FALSE, df |-> <<>>]
    ELSE LET raw == pd_read_excel(content)
             header_row_idx == detect_header_row(raw)
         IN IF Len(raw) < 2 THEN [raised |-> FALSE, df |-> <<>>]
            ELSE IF header_row_idx = -1 THEN [raised |-> FALSE, df |-> <<>>]
            ELSE [raised |-> FALSE, df |-> extract_transactions(raw, header_row_idx)]

(***************************************************************************)
(* Orchestrator: the passes of DataProcessor over the merged records       *)
(***************************************************************************)

\* the width of every account code
CodeWidth == 21

\* a variant of parse_cuenta_contable without the re.sub that removes what is
\* not a digit or an uppercase letter: the code of C13 tells the two apart
parse_cuenta_contable_unfiltered(cuenta_str) ==
    LET upper  == Upper(Strip(cuenta_str))
        alnum  == upper
        s      == IF Len(alnum) >= CodeWidth THEN alnum
                  ELSE alnum \o [i \in 1..(CodeWidth - Len(alnum)) |-> "0"]
        slice(lo, hi) == SubSeq(s, lo + 1, hi)
    IN [genero                  |-> slice(0, 1),
        grupo                   |-> slice(1, 2),
        rubro                   |-> slice(2, 3),
        cuenta                  |-> slice(3, 4),
        subcuenta               |-> slice(4, 5),
        dependencia             |-> slice(5, 7),
        unidad_responsable      |-> slice(7, 9),
        centro_costo            |-> slice(9, 11),
        proyecto_presupuestario |-> slice(11, 13),
        fuente                  |-> slice(13, 14),
        subfuente               |-> slice(14, 16),
        tipo_recurso            |-> slice(16, 17),
        partida_presupuestal    |-> slice(17, 21)]

\* a variant of parse_cuenta_contable with the offsets of fuente and
\* tipo_recurso exchanged: the round trip of C14 tells the two apart
parse_cuenta_contable_swapped(cuenta_str) ==
    LET upper  == Upper(Strip(cuenta_str))
        alnum  == SelectSeq(upper, LAMBDA ch : ch \in Digits \/ ch \in {UpperLetters[i] : i \in 1..26})
        s      == IF Len(alnum) >= CodeWidth THEN alnum
                  ELSE alnum \o [i \in 1..(CodeWidth - Len(alnum)) |-> "0"]
        slice(lo, hi) == SubSeq(s, lo + 1, hi)
    IN [genero                  |-> slice(0, 1),
        grupo                   |-> slice(1, 2),
        rubro                   |-> slice(2, 3),
        cuenta                  |-> slice(3, 4),
        subcuenta               |-> slice(4, 5),
        dependencia             |-> slice(5, 7),
        unidad_responsable      |-> slice(7, 9),
        centro_costo            |-> slice(9, 11),
        proyecto_presupuestario |-> slice(11, 13),
        fuente                  |-> slice(16, 17),
        subfuente               |-> slice(14, 16),
        tipo_recurso            |-> slice(13, 14),
        partida_presupuestal    |-> slice(17, 21)]

\* parse_cuenta_contable: the 13 components of an account code
parse_cuenta_contable(cuenta_str) ==
    LET upper  == Upper(Strip(cuenta_str))
        alnum  == SelectSeq(upper, LAMBDA ch : ch \in Digits \/ ch \in {UpperLetters[i] : i \in 1..26})
        s      == IF Len(alnum) >= CodeWidth THEN alnum
                  ELSE alnum \o [i \in 1..(CodeWidth - Len(alnum)) |-> "0"]
        slice(lo, hi) == SubSeq(s, lo + 1, hi)
    IN [genero                  |-> slice(0, 1),
        grupo                   |-> slice(1, 2),
        rubro                   |-> slice(2, 3),
        cuenta                  |-> slice(3, 4),
        subcuenta               |-> slice(4, 5),
        dependencia             |-> slice(5, 7),
        unidad_responsable      |-> slice(7, 9),
        centro_costo            |-> slice(9, 11),
        proyecto_presupuestario |-> slice(11, 13),
        fuente                  |-> slice(13, 14),
        subfuente               |-> slice(14, 16),
        tipo_recurso            |-> slice(16, 17),
        partida_presupuestal    |-> slice(17, 21)]

\* a variant of to_numeric_fast without the str.replace: the round trip of
\* C15 tells the two apart
to_numeric_unreplaced(text) ==
    LET num == ParseDecimal(text)
    IN IF num.ok THEN num.value ELSE 0

\* to_numeric_fast on one value: every character but digits, "." and "-" is
\* removed, what does not parse becomes 0
to_numeric_fast(text) ==
    LET kept == SelectSeq(text, LAMBDA ch : ch \in Digits \/ ch \in {".", "-"})
        num  == ParseDecimal(kept)
    IN IF num.ok THEN num.value ELSE 0

\* df['archivo_origen'] = filename on the DataFrame of one file
WithOrigen(df, filename) ==
    [k \in 1..Len(df) |->
        [cuenta_contable |-> df[k].cuenta_contable,
         nombre_cuenta   |-> df[k].nombre_cuenta,
         fecha           |-> df[k].fecha,
         poliza          |-> df[k].poliza,
         beneficiario    |-> df[k].beneficiario,
         descripcion     |-> df[k].descripcion,
         orden_pago      |-> df[k].orden_pago,
         saldo_inicial   |-> df[k].saldo_inicial,
         cargos          |-> df[k].cargos,
         abonos          |-> df[k].abonos,
         saldo_final     |-> df[k].saldo_final,
         fila            |-> df[k].fila,
         archivo_origen  |-> filename]]

RECURSIVE pd_concat_reversed(_)
\* a variant of the concatenation that puts the last frame first: the order
\* of C2 tells the two apart
pd_concat_reversed(frames) ==
    IF Len(frames) = 0 THEN <<>> ELSE pd_concat_reversed(Tail(frames)) \o Head(frames)

RECURSIVE pd_concat_interleaved(_)
\* a variant of the concatenation that takes one row of each frame in turn:
\* the blocks of C18 tell the two apart
pd_concat_interleaved(frames) ==
    IF Len(frames) = 0 THEN <<>>
    ELSE IF Head(frames) = <<>> THEN pd_concat_interleaved(Tail(frames))
    ELSE <<Head(Head(frames))>>
             \o pd_concat_interleaved(Tail(frames) \o <<Tail(Head(frames))>>)

RECURSIVE pd_concat(_)
\* pd.concat(frames, ignore_index=True)
pd_concat(frames) ==
    IF Len(frames) = 0 THEN <<>> ELSE Head(frames) \o pd_concat(Tail(frames))

\* DataProcessor._process_cuentas_contables: the components, kept as one field
process_cuentas_contables(df) ==
    [k \in 1..Len(df) |->
        [cuenta_contable |-> df[k].cuenta_contable,
         nombre_cuenta   |-> df[k].nombre_cuenta,
         fecha           |-> df[k].fecha,
         poliza          |-> df[k].poliza,
         beneficiario    |-> df[k].beneficiario,
         descripcion     |-> df[k].descripcion,
         orden_pago      |-> df[k].orden_pago,
         saldo_inicial   |-> df[k].saldo_inicial,
         cargos          |-> df[k].cargos,
         abonos          |-> df[k].abonos,
         saldo_final     |-> df[k].saldo_final,
         fila            |-> df[k].fila,
         archivo_origen  |-> df[k].archivo_origen,
         componentes     |-> parse_cuenta_contable(df[k].cuenta_contable)]]

\* DataProcessor._convert_monetary_values (saldo_final stays the file's text)
convert_monetary_values(df) ==
    [k \in 1..Len(df) |->
        [df[k] EXCEPT !.saldo_inicial = to_numeric_fast(@),
                      !.cargos        = to_numeric_fast(@),
                      !.abonos        = to_numeric_fast(@)]]

RECURSIVE Unique(_, _)
\* Series.unique(): the values of the column in order of first appearance
Unique(df, seen) ==
    IF Len(df) = 0 THEN seen
    ELSE IF \E k \in 1..Len(seen) : seen[k] = Head(df).cuenta_contable
         THEN Unique(Tail(df), seen)
         ELSE Unique(Tail(df), Append(seen, Head(df).cuenta_contable))

\* a variant of the mask that selects every row, whatever its account: the
\* order independence of C25 tells the two apart
IndicesOfAnyCuenta(df, cuenta) == [k \in 1..Len(df) |-> k]

\* df[mask].index: the positions of the rows of one account, ascending
IndicesOf(df, cuenta) ==
    LET S == {k \in 1..Len(df) : df[k].cuenta_contable = cuenta}
        f[n \in 0..Cardinality(S)] ==
            IF n = 0 THEN <<>>
            ELSE LET rest == S \ {f[n - 1][j] : j \in 1..(n - 1)}
                 IN Append(f[n - 1], CHOOSE m \in rest : \A o \in rest : m <= o)
    IN f[Cardinality(S)]

RECURSIVE BalanceLoopOwnOpening(_, _, _, _)
\* a variant of the inner loop that leaves every row the opening balance the
\* file gave it: the chain of C1 tells the two apart
BalanceLoopOwnOpening(df, indices, j, saldo_actual) ==
    IF j > Len(indices) THEN df
    ELSE LET idx == indices[j]
             saldo == IF j = 1
                      THEN df[idx].saldo_inicial + df[idx].cargos - df[idx].abonos
                      ELSE saldo_actual + df[idx].cargos - df[idx].abonos
         IN BalanceLoopOwnOpening([df EXCEPT ![idx].saldo_final = saldo], indices, j + 1, saldo)

RECURSIVE BalanceLoop(_, _, _, _)
\* the inner loop of _calculate_balances over the rows indices[j..] of one
\* account, saldo_actual being the balance after the rows before j
BalanceLoop(df, indices, j, saldo_actual) ==
    IF j > Len(indices) THEN df
    ELSE LET idx == indices[j]
             saldo == IF j = 1
                      THEN df[idx].saldo_inicial + df[idx].cargos - df[idx].abonos
                      ELSE saldo_actual + df[idx].cargos - df[idx].abonos
             opened == IF j = 1 THEN df
                       ELSE [df EXCEPT ![idx].saldo_inicial = saldo_actual]
         IN BalanceLoop([opened EXCEPT ![idx].saldo_final = saldo], indices, j + 1, saldo)

RECURSIVE BalanceCuentas(_, _)
\* the outer loop of _calculate_balances over the accounts still to do
BalanceCuentas(df, cuentas) ==
    IF Len(cuentas) = 0 THEN df
    ELSE BalanceCuentas(BalanceLoop(df, IndicesOf(df, Head(cuentas)), 1, 0), Tail(cuentas))

\* a variant of the pass that clears the opening column as it clears the
\* closing column: the frame of C29 tells the two apart
calculate_balances_cleared(df) ==
    BalanceCuentas([k \in 1..Len(df) |-> [df[k] EXCEPT !.saldo_final = 0, !.saldo_inicial = 0]],
                   Unique(df, <<>>))

\* DataProcessor._calculate_balances
calculate_balances(df) ==
    BalanceCuentas([k \in 1..Len(df) |-> [df[k] EXCEPT !.saldo_final = 0]], Unique(df, <<>>))

\* pandas NaT
NaT == <<"NaT">>

\* pd.to_datetime(text, format="%d/%m/%Y", errors="coerce") on one value
to_datetime_dmy(text) ==
    IF /\ IsSlashDate(text)
       /\ DigitsVal(SubSeq(text, 1, 2)) \in 1..31
       /\ DigitsVal(SubSeq(text, 4, 5)) \in 1..12
    THEN <<DigitsVal(SubSeq(text, 1, 2)), DigitsVal(SubSeq(text, 4, 5)), DigitsVal(SubSeq(text, 7, 10))>>
    ELSE NaT

\* DataProcessor._convert_dates
convert_dates(df) ==
    [k \in 1..Len(df) |->
        [cuenta_contable   |-> df[k].cuenta_contable,
         nombre_cuenta     |-> df[k].nombre_cuenta,
         fecha             |-> df[k].fecha,
         poliza            |-> df[k].poliza,
         beneficiario      |-> df[k].beneficiario,
         descripcion       |-> df[k].descripcion,
         orden_pago        |-> df[k].orden_pago,
         saldo_inicial     |-> df[k].saldo_inicial,
         cargos            |-> df[k].cargos,
         abonos            |-> df[k].abonos,
         saldo_final       |-> df[k].saldo_final,
         fila              |-> df[k].fila,
         archivo_origen    |-> df[k].archivo_origen,
         componentes       |-> df[k].componentes,
         fecha_transaccion |-> to_datetime_dmy(df[k].fecha)]]

\* the Transaccion object built from one row of the chunk
Transaccion(row, lote_id, usuario) ==
    [lote_id           |-> lote_id,
     archivo_origen    |-> row.archivo_origen,
     usuario_carga     |-> usuario,
     cuenta_contable   |-> row.cuenta_contable,
     nombre_cuenta     |-> row.nombre_cuenta,
     componentes       |-> row.componentes,
     fecha_transaccion |-> row.fecha_transaccion,
     poliza            |-> row.poliza,
     beneficiario      |-> row.beneficiario,
     descripcion       |-> row.descripcion,
     orden_pago        |-> row.orden_pago,
     saldo_inicial     |-> row.saldo_inicial,
     cargos            |-> row.cargos,
     abonos            |-> row.abonos,
     saldo_final       |-> row.saldo_final,
     fila              |-> row.fila]

\* df.iloc[i:i + chunk_size], i counted from 0
Chunk(df, i, size) ==
    SubSeq(df, i + 1, IF i + size < Len(df) THEN i + size ELSE Len(df))

\* fecha_transaccion is declared nullable=False: the insert of a chunk that
\* holds a row without a date raises
ChunkRejected(chunk) == \E k \in 1..Len(chunk) : chunk[k].fecha_transaccion = NaT

\* a variant of the percentage of a chunk that is not scaled to the 15 points
\* between 80 and 95: the range of C7 tells the two apart
InsertProgressUnscaled(total_insertados, n) == 80 + (total_insertados * 100) \div n

\* 80 + int((total_insertados / len(df)) * 15)
InsertProgress(total_insertados, n) == 80 + (total_insertados * 15) \div n

\* the messages stored in LoteCarga.mensaje: the text, the exception type put
\* in front of it by _handle_error, and the values formatted into it
NoMessage == [texto |-> "", tipo |-> "", archivos |-> <<>>, total |-> 0, n_archivos |-> 0]

\* the error_msg of _handle_no_files_processed
NoFilesMessage(archivos_fallidos) ==
    [texto |-> "No se pudo procesar ningun archivo valido. Archivos fallidos: ",
     tipo |-> "", archivos |-> archivos_fallidos, total |-> 0, n_archivos |-> 0]

\* the mensaje of _complete_lote
CompletedMessage(total_registros, archivos_procesados) ==
    [texto |-> "Procesados registros de archivos",
     tipo |-> "", archivos |-> <<>>, total |-> total_registros, n_archivos |-> archivos_procesados]

\* the message of the exception a failed insert raises
InsertErrorMessage ==
    [texto |-> "insert failed", tipo |-> "", archivos |-> <<>>, total |-> 0, n_archivos |-> 0]

\* a variant of the message of _handle_error that keeps only the exception
\* type: the message of C4 tells the two apart
ErrorMessageTypeOnly(error) == [NoMessage EXCEPT !.tipo = error.tipo]

\* the error_msg of _handle_error: f"{type(error).__name__}: {str(error)}"
ErrorMessage(error) == [error.msg EXCEPT !.tipo = error.tipo]

(***************************************************************************)
(* State                                                                   *)
(***************************************************************************)

VARIABLES
    \* one call of ExcelReader.read_excel_file, row by row
    r_content,      \* the file content handed to the reader
    r_pc,           \* "start", "rows", "done" or "raised" ("idle": no call)
    r_idx,          \* idx of the row loop
    r_ctx,          \* current_cuenta, current_nombre, current_saldo_inicial, records
    r_df,           \* the returned DataFrame (a sequence of records)
    \* one call of DataProcessor.process_files
    file_list,      \* the contents of the submitted files; file k is named k
    chunk_size,     \* DataProcessor.chunk_size
    pc,             \* where process_files is ("idle": no call)
    tasks,          \* per read task: "queued", "running" or "done"
    completed,      \* as_completed: the tasks finished while it waits, in finishing order
    handled,        \* the tasks the as_completed loop has taken
    frames,
    archivos_procesados,
    archivos_fallidos,
    base_df,
    offset,         \* i of the insert loop
    total_insertados,
    error,          \* the exception in flight, NoError when none
    lote,           \* the LoteCarga row as committed
    lote_commits,   \* every committed write of estado and mensaje, in order
    progress,       \* the percentages handed to progress_callback, in order
    transacciones,  \* the committed rows of the transacciones table
    outcome         \* "running", "returned" or "raised"

VARIABLES
    \* one call of parse_cuenta_contable
    d_cuenta_str,   \* the argument
    d_pc,           \* "start" or "done" ("idle": no call)
    d_componentes,  \* the returned dict
    \* one call of to_numeric_fast on a series of one value
    n_text,         \* the value of the series
    n_pc,           \* "start" or "done" ("idle": no call)
    n_value         \* the converted value, in hundredths

VARIABLES
    \* the job registry of the upload routes, one job
    jobs,           \* the dict `jobs`: NoJobs, or the dict stored under the job's id
    jobs_lock,      \* who holds jobs_lock: "free", "upload", "worker" or "stream"
    u_pc,           \* upload_files: position of the request handler
    w_pc,           \* process_files of the route (the background thread): position
    w_stage,        \* reports the processor has made so far
    s_job_id,       \* progress_stream: the id in the URL
    s_pc,           \* generate: position
    s_job,          \* generate: local `job`, TRUE when it refers to the job's dict
    s_cur,          \* generate: locals current_progress .. total_registros
    s_last,         \* generate: local last_progress
    s_event         \* the last event yielded, NoEvent when none

VARIABLES
    \* the merge of process_files_to_database and its payment-order pass
    m_frames,       \* the frames of the files that yielded records
    m_pc,           \* "start" or "done" ("idle": no call)
    m_base          \* base after the pass

reader_vars == <<r_content, r_pc, r_idx, r_ctx, r_df>>

merge_vars == <<m_frames, m_pc, m_base>>

decoder_vars == <<d_cuenta_str, d_pc, d_componentes>>

numeric_vars == <<n_text, n_pc, n_value>>

job_vars == <<jobs, jobs_lock, u_pc, w_pc, w_stage, s_job_id, s_pc, s_job, s_cur,
              s_last, s_event>>

\* the state of the calls a specification does not make
other_vars == <<decoder_vars, numeric_vars, job_vars, merge_vars>>

read_vars == <<tasks, completed, handled, frames, archivos_procesados, archivos_fallidos>>

process_vars == <<file_list, chunk_size, pc, tasks, completed, handled, frames,
                  archivos_procesados, archivos_fallidos, base_df, offset,
                  total_insertados, error, lote, lote_commits, progress,
                  transacciones, outcome>>

vars == <<reader_vars, process_vars, other_vars>>

NoError == [tipo |-> "", msg |-> NoMessage]

ReaderIdle ==
    /\ r_content = CorruptContent
    /\ r_pc = "idle"
    /\ r_idx = 0
    /\ r_ctx = InitialContext
    /\ r_df = <<>>

DecoderIdle ==
    /\ d_cuenta_str = <<>>
    /\ d_pc = "idle"
    /\ d_componentes = <<>>

NumericIdle ==
    /\ n_text = <<>>
    /\ n_pc = "idle"
    /\ n_value = 0

\* jobs = {} at import
NoJobs == [exists |-> FALSE]

\* the dict stored at job creation; error "None" and lote_id 0 stand for None
\* (an exception text is never "None" here, a LoteCarga id starts at 1)
NewJob ==
    [exists |-> TRUE, progress |-> 0, message |-> "Iniciando...", done |-> FALSE,
     error |-> "None", lote_id |-> 0, total_registros |-> 0]

\* the locals of generate before the first read
NoLocals ==
    [progress |-> 0, message |-> "", done |-> FALSE, error |-> "None", lote_id |-> 0,
     total_registros |-> 0]

NoEvent == [progress |-> -1]

JobsIdle ==
    /\ jobs = NoJobs
    /\ jobs_lock = "free"
    /\ u_pc = "idle"
    /\ w_pc = "idle"
    /\ w_stage = 0
    /\ s_job_id = "none"
    /\ s_pc = "idle"
    /\ s_job = FALSE
    /\ s_cur = NoLocals
    /\ s_last = -1
    /\ s_event = NoEvent

MergeIdle ==
    /\ m_frames = <<>>
    /\ m_pc = "idle"
    /\ m_base = <<>>

OtherIdle == DecoderIdle /\ NumericIdle /\ JobsIdle /\ MergeIdle

ProcessIdle ==
    /\ file_list = <<>>
    /\ chunk_size = 1
    /\ pc = "idle"
    /\ tasks = <<>>
    /\ completed = <<>>
    /\ handled = {}
    /\ frames = <<>>
    /\ archivos_procesados = <<>>
    /\ archivos_fallidos = <<>>
    /\ base_df = <<>>
    /\ offset = 0
    /\ total_insertados = 0
    /\ error = NoError
    /\ lote = [estado |-> "", mensaje |-> NoMessage, total_registros |-> 0, archivos |-> <<>>]
    /\ lote_commits = <<>>
    /\ progress = <<>>
    /\ transacciones = <<>>
    /\ outcome = "running"

(***************************************************************************)
(* The reader, one row per step                                            *)
(***************************************************************************)

\* most rows a workbook of the reader specification has below its header band
MaxRows == 3

\* how a workbook starts: no header, a header, a two-row header, a header
\* below an empty row
HeaderBands == {<<>>, <<"Header">>, <<"Header", "SubHeader">>, <<"Empty", "Header">>}

\* the rows below the header band
BodyRowNames == {"Empty", "CuentaA", "CuentaB", "SaldoInicial", "SaldoFinal",
                 "Tx4", "TxNA", "Tx3", "Tx2", "Tx1", "Total"}

RECURSIVE SeqsUpTo(_, _)
\* the sequences of at most n elements of S
SeqsUpTo(S, n) ==
    IF n = 0 THEN {<<>>}
    ELSE LET shorter == SeqsUpTo(S, n - 1)
         IN shorter \cup {Append(q, x) : q \in {t \in shorter : Len(t) = n - 1}, x \in S}

\* workbooks whose header row lies at the end of the rows detect_header_row
\* scans, just past them, and twice
DeepHeaderSheets ==
    { [i \in 1..(max_rows - 1) |-> "Empty"] \o <<"Header", "CuentaA", "Tx3">>,
      [i \in 1..max_rows |-> "Empty"] \o <<"Header", "CuentaA", "Tx3">>,
      [i \in 1..max_rows |-> "SaldoInicial"] \o <<"Header", "CuentaA", "Tx3">>,
      <<"Empty", "Header", "CuentaA", "Tx3", "Header", "Tx2">> }

\* the section of the worked example: an account, its opening balance and two
\* movements; and an account that follows a section with an opening balance
ScenarioSheets ==
    { <<"Header", "CuentaA", "SaldoInicial", "Tx3", "Tx2", "SaldoFinal">>,
      <<"Header", "CuentaA", "SaldoInicial", "CuentaB", "Tx3">>,
      <<"Header", "CuentaA", "SaldoInicial", "CuentaB", "Tx2">>,
      <<"Header", "CuentaA", "TxCompact">>,
      <<"Header", "CuentaA", "TxZero">>,
      <<"Header", "CuentaA", "SaldoInicialDated", "Tx3">>,
      <<"Header", "CuentaA", "SaldoInicial", "TxCompact", "Tx3">> } \cup DeepHeaderSheets

ReaderContents ==
    {GridContent(band \o body) : band \in HeaderBands, body \in SeqsUpTo(BodyRowNames, MaxRows)}
        \cup {GridContent(sheet) : sheet \in ScenarioSheets}
        \cup {CorruptContent, ClosedContent}

ReaderInit ==
    /\ r_content \in ReaderContents
    /\ r_pc = "start"
    /\ r_idx = 0
    /\ r_ctx = InitialContext
    /\ r_df = <<>>
    /\ ProcessIdle
    /\ OtherIdle

\* file_content.seek(0) raises: the call raises
SeekFails ==
    /\ r_pc = "start"
    /\ r_content.kind = "closed"
    /\ r_pc' = "raised"
    /\ UNCHANGED <<r_content, r_idx, r_ctx, r_df, process_vars, other_vars>>

\* pd.read_excel raises: caught, pd.DataFrame() is returned
OpenFails ==
    /\ r_pc = "start"
    /\ r_content.kind = "corrupt"
    /\ r_pc' = "done"
    /\ r_df' = <<>>
    /\ UNCHANGED <<r_content, r_idx, r_ctx, process_vars, other_vars>>

\* raw.empty or len(raw) < 2
TooSmall ==
    /\ r_pc = "start"
    /\ r_content.kind = "grid"
    /\ Len(r_content.sheet) < 2
    /\ r_pc' = "done"
    /\ r_df' = <<>>
    /\ UNCHANGED <<r_content, r_idx, r_ctx, process_vars, other_vars>>

\* header_row_idx is None
NoHeader ==
    /\ r_pc = "start"
    /\ r_content.kind = "grid"
    /\ Len(r_content.sheet) >= 2
    /\ detect_header_row(pd_read_excel(r_content)) = -1
    /\ r_pc' = "done"
    /\ r_df' = <<>>
    /\ UNCHANGED <<r_content, r_idx, r_ctx, process_vars, other_vars>>

\* the header is found: _extract_transactions starts its loop
StartRows ==
    /\ r_pc = "start"
    /\ r_content.kind = "grid"
    /\ Len(r_content.sheet) >= 2
    /\ detect_header_row(pd_read_excel(r_content)) # -1
    /\ r_pc' = "rows"
    /\ r_idx' = StartIdx(pd_read_excel(r_content), detect_header_row(pd_read_excel(r_content)))
    /\ r_ctx' = InitialContext
    /\ UNCHANGED <<r_content, r_df, process_vars, other_vars>>

\* the loop is at a row that takes the given branch
AtRow(branch) ==
    /\ r_pc = "rows"
    /\ r_idx < Len(r_content.sheet)
    /\ RowBranch(r_ctx, RowCells[r_content.sheet[r_idx + 1]]) = branch

\* a variant of the marker row that keeps the stored opening balance: the
\* opening balance of C19 tells the two apart
CuentaRowKeepsSaldo ==
    /\ AtRow("cuenta")
    /\ LET cn == parse_cuenta_line(Strip(CellStr(RowCells[r_content.sheet[r_idx + 1]][1])))
       IN r_ctx' = [r_ctx EXCEPT !.cuenta = cn[1], !.nombre = cn[2]]
    /\ r_idx' = r_idx + 1
    /\ UNCHANGED <<r_content, r_pc, r_df, process_vars, other_vars>>

\* a "CUENTA CONTABLE:" row: the section changes, the opening balance is forgotten
CuentaRow ==
    /\ AtRow("cuenta")
    /\ LET cn == parse_cuenta_line(Strip(CellStr(RowCells[r_content.sheet[r_idx + 1]][1])))
       IN r_ctx' = [r_ctx EXCEPT !.cuenta = cn[1], !.nombre = cn[2], !.saldo = None]
    /\ r_idx' = r_idx + 1
    /\ UNCHANGED <<r_content, r_pc, r_df, process_vars, other_vars>>

\* a "SALDO INICIAL CUENTA" row of an active account
SaldoInicialRow ==
    /\ AtRow("saldo")
    /\ r_ctx' = [r_ctx EXCEPT !.saldo = extract_saldo_inicial(RowCells[r_content.sheet[r_idx + 1]])]
    /\ r_idx' = r_idx + 1
    /\ UNCHANGED <<r_content, r_pc, r_df, process_vars, other_vars>>

\* an empty row or a total row
SkipRow ==
    /\ AtRow("skip")
    /\ r_idx' = r_idx + 1
    /\ UNCHANGED <<r_content, r_pc, r_ctx, r_df, process_vars, other_vars>>

\* a row met while no account is active
SinCuentaRow ==
    /\ AtRow("sin_cuenta")
    /\ r_idx' = r_idx + 1
    /\ UNCHANGED <<r_content, r_pc, r_ctx, r_df, process_vars, other_vars>>

\* a candidate transaction row: appended when _parse_transaction_row returns a record
TransaccionRow ==
    /\ AtRow("transaccion")
    /\ r_ctx' = [r_ctx EXCEPT !.records =
                    @ \o parse_transaction_row(RowCells[r_content.sheet[r_idx + 1]],
                                               r_ctx.cuenta, r_ctx.nombre, r_ctx.saldo, r_idx)]
    /\ r_idx' = r_idx + 1
    /\ UNCHANGED <<r_content, r_pc, r_df, process_vars, other_vars>>

\* the loop is over: pd.DataFrame() when no record, pd.DataFrame(records) otherwise
ReaderReturn ==
    /\ r_pc = "rows"
    /\ r_idx >= Len(r_content.sheet)
    /\ r_pc' = "done"
    /\ r_df' = r_ctx.records
    /\ UNCHANGED <<r_content, r_idx, r_ctx, process_vars, other_vars>>

ReaderNext ==
    \/ SeekFails
    \/ OpenFails
    \/ TooSmall
    \/ NoHeader
    \/ StartRows
    \/ CuentaRow
    \/ SaldoInicialRow
    \/ SkipRow
    \/ SinCuentaRow
    \/ TransaccionRow
    \/ ReaderReturn

SpecReader == ReaderInit /\ [][ReaderNext]_vars

(***************************************************************************)
(* The orchestrator: DataProcessor.process_files                           *)
(***************************************************************************)

\* most files of one call
MaxFiles == 2

\* Config.MAX_WORKERS
MAX_WORKERS == 4

\* the values of chunk_size the model runs with
ChunkSizes == {1, 2}

\* str(uuid.uuid4()) of the call
LoteId == "lote-1"

Usuario == "sistema"

\* the workbooks submitted: two movements of account 11 under an opening
\* balance, one movement of account 11, one of account 22, one whose date
\* cannot be read, and one without a header row
FileSheets ==
    { <<"Header", "CuentaA", "SaldoInicial", "Tx3", "Tx2">>,
      <<"Header", "CuentaA", "Tx4">>,
      <<"Header", "SubHeader", "CuentaB", "Tx3">>,
      <<"Header", "CuentaB", "TxNA">>,
      <<"CuentaA", "Tx3">> }

FileContents == {GridContent(sheet) : sheet \in FileSheets} \cup {ClosedContent}

\* what the read task of each content ends with
TaskResults == [content \in FileContents |-> read_excel_file(content)]

\* future.result() of the read task of file k
FutureResult(k) == TaskResults[file_list[k]]

Init ==
    /\ ReaderIdle
    /\ OtherIdle
    /\ file_list \in (SeqsUpTo(FileContents, MaxFiles) \ {<<>>})
    /\ chunk_size \in ChunkSizes
    /\ pc = "create_lote"
    /\ tasks = <<>>
    /\ completed = <<>>
    /\ handled = {}
    /\ frames = <<>>
    /\ archivos_procesados = <<>>
    /\ archivos_fallidos = <<>>
    /\ base_df = <<>>
    /\ offset = 0
    /\ total_insertados = 0
    /\ error = NoError
    /\ lote = [estado |-> "", mensaje |-> NoMessage, total_registros |-> 0, archivos |-> <<>>]
    /\ lote_commits = <<>>
    /\ progress = <<>>
    /\ transacciones = <<>>
    /\ outcome = "running"

\* the commit of the LoteCarga row with a new estado and mensaje
CommitLote(estado, mensaje, total_registros) ==
    /\ lote' = [lote EXCEPT !.estado = estado, !.mensaje = mensaje,
                            !.total_registros = total_registros]
    /\ lote_commits' = Append(lote_commits, [estado |-> estado, mensaje |-> mensaje])

\* DataProcessor._report
Report(percentage) == progress' = Append(progress, percentage)

\* DataProcessor._create_lote
CreateLote ==
    /\ pc = "create_lote"
    /\ lote' = [estado |-> "procesando", mensaje |-> NoMessage, total_registros |-> 0,
                archivos |-> [k \in 1..Len(file_list) |-> k]]
    /\ lote_commits' = Append(lote_commits, [estado |-> "procesando", mensaje |-> NoMessage])
    /\ pc' = "read"
    /\ UNCHANGED <<reader_vars, other_vars, file_list, chunk_size, read_vars, base_df, offset,
                   total_insertados, error, progress, transacciones, outcome>>

\* _report(5, ...) and the submission of one read task per file
SubmitReads ==
    /\ pc = "read"
    /\ Report(5)
    /\ tasks' = [k \in 1..Len(file_list) |-> "queued"]
    /\ pc' = "submitted"
    /\ UNCHANGED <<reader_vars, other_vars, file_list, chunk_size, completed, handled, frames,
                   archivos_procesados, archivos_fallidos, base_df, offset,
                   total_insertados, error, lote, lote_commits, transacciones, outcome>>

\* ThreadPoolExecutor(max_workers=min(self.max_workers, len(file_list)))
PoolWidth == IF MAX_WORKERS < Len(file_list) THEN MAX_WORKERS ELSE Len(file_list)

\* a worker thread takes the oldest queued task
StartTask(k) ==
    /\ pc \in {"submitted", "as_completed"}
    /\ tasks[k] = "queued"
    /\ \A j \in 1..(k - 1) : tasks[j] # "queued"
    /\ Cardinality({j \in 1..Len(tasks) : tasks[j] = "running"}) < PoolWidth
    /\ tasks' = [tasks EXCEPT ![k] = "running"]
    /\ UNCHANGED <<reader_vars, other_vars, file_list, chunk_size, pc, completed, handled, frames,
                   archivos_procesados, archivos_fallidos, base_df, offset,
                   total_insertados, error, lote, lote_commits, progress,
                   transacciones, outcome>>

\* a read task ends; as_completed, once waiting, is told in finishing order
FinishTask(k) ==
    /\ pc \in {"submitted", "as_completed"}
    /\ tasks[k] = "running"
    /\ tasks' = [tasks EXCEPT ![k] = "done"]
    /\ completed' = IF pc = "as_completed" THEN Append(completed, k) ELSE completed
    /\ UNCHANGED <<reader_vars, other_vars, file_list, chunk_size, pc, handled, frames,
                   archivos_procesados, archivos_fallidos, base_df, offset,
                   total_insertados, error, lote, lote_commits, progress,
                   transacciones, outcome>>

\* as_completed(futures) is called: the futures already finished are set apart
AsCompleted ==
    /\ pc = "submitted"
    /\ pc' = "as_completed"
    /\ UNCHANGED <<reader_vars, other_vars, file_list, chunk_size, read_vars, base_df, offset,
                   total_insertados, error, lote, lote_commits, progress,
                   transacciones, outcome>>

\* the futures that were finished when as_completed was called: it yields
\* them first, in the iteration order of a set
FinishedAtCall ==
    {k \in 1..Len(tasks) :
        /\ tasks[k] = "done"
        /\ k \notin handled
        /\ \A j \in 1..Len(completed) : completed[j] # k}

\* the future k is the one as_completed yields next
Yields(k) ==
    /\ pc = "as_completed"
    /\ IF FinishedAtCall # {} THEN k \in FinishedAtCall
       ELSE Len(completed) > 0 /\ k = Head(completed)

\* completed once the future k is taken
Taken(k) == IF FinishedAtCall # {} THEN completed ELSE Tail(completed)

\* the loop body of _read_files for a future whose DataFrame has rows
FutureWithRecords(k) ==
    /\ Yields(k)
    /\ ~FutureResult(k).raised
    /\ FutureResult(k).df # <<>>
    /\ frames' = Append(frames, WithOrigen(FutureResult(k).df, k))
    /\ archivos_procesados' = Append(archivos_procesados, k)
    /\ handled' = handled \cup {k}
    /\ completed' = Taken(k)
    /\ UNCHANGED <<reader_vars, other_vars, file_list, chunk_size, pc, tasks, archivos_fallidos,
                   base_df, offset, total_insertados, error, lote, lote_commits,
                   progress, transacciones, outcome>>

\* a variant of the loop body that drops a file without records instead of
\* listing it as failed: the two lists of C26 tell the two apart
FutureEmptyUnlisted(k) ==
    /\ Yields(k)
    /\ ~FutureResult(k).raised
    /\ FutureResult(k).df = <<>>
    /\ handled' = handled \cup {k}
    /\ completed' = Taken(k)
    /\ UNCHANGED <<reader_vars, other_vars, file_list, chunk_size, pc, tasks, frames,
                   archivos_procesados, archivos_fallidos, base_df, offset,
                   total_insertados, error, lote, lote_commits, progress, transacciones,
                   outcome>>

\* the loop body of _read_files for a future whose DataFrame is empty
FutureEmpty(k) ==
    /\ Yields(k)
    /\ ~FutureResult(k).raised
    /\ FutureResult(k).df = <<>>
    /\ archivos_fallidos' = Append(archivos_fallidos, k)
    /\ handled' = handled \cup {k}
    /\ completed' = Taken(k)
    /\ UNCHANGED <<reader_vars, other_vars, file_list, chunk_size, pc, tasks, frames,
                   archivos_procesados, base_df, offset, total_insertados, error,
                   lote, lote_commits, progress, transacciones, outcome>>

\* a variant of the loop body in which the exception of a read leaves
\* _read_files: the outcome of C5 tells the two apart
FutureRaisedAborts(k) ==
    /\ Yields(k)
    /\ FutureResult(k).raised
    /\ error' = [tipo |-> "ValueError", msg |-> NoMessage]
    /\ handled' = handled \cup {k}
    /\ completed' = Taken(k)
    /\ pc' = "except"
    /\ UNCHANGED <<reader_vars, other_vars, file_list, chunk_size, tasks, frames, archivos_fallidos,
                   archivos_procesados, base_df, offset, total_insertados,
                   lote, lote_commits, progress, transacciones, outcome>>

\* the loop body of _read_files for a future whose result() raises
FutureRaised(k) ==
    /\ Yields(k)
    /\ FutureResult(k).raised
    /\ archivos_fallidos' = Append(archivos_fallidos, k)
    /\ handled' = handled \cup {k}
    /\ completed' = Taken(k)
    /\ UNCHANGED <<reader_vars, other_vars, file_list, chunk_size, pc, tasks, frames,
                   archivos_procesados, base_df, offset, total_insertados, error,
                   lote, lote_commits, progress, transacciones, outcome>>

\* a variant of the end of _read_files that returns once one future has been
\* taken: the finished reads of C22 tell the two apart
ReadsOverFirst == pc = "as_completed" /\ handled # {}

\* every future has been taken: _read_files returns
ReadsOver == pc = "as_completed" /\ handled = 1..Len(file_list)

\* not frames: _handle_no_files_processed, then raise ValueError(error_msg)
NoFilesProcessed ==
    /\ ReadsOver
    /\ frames = <<>>
    /\ CommitLote("error", NoFilesMessage(archivos_fallidos), lote.total_registros)
    /\ error' = [tipo |-> "ValueError", msg |-> NoFilesMessage(archivos_fallidos)]
    /\ pc' = "except"
    /\ UNCHANGED <<reader_vars, other_vars, file_list, chunk_size, read_vars, base_df, offset,
                   total_insertados, progress, transacciones, outcome>>

\* _report(30, ...) and pd.concat(frames)
Consolidate ==
    /\ ReadsOver
    /\ frames # <<>>
    /\ Report(30)
    /\ base_df' = pd_concat(frames)
    /\ pc' = "cuentas"
    /\ UNCHANGED <<reader_vars, other_vars, file_list, chunk_size, read_vars, offset,
                   total_insertados, error, lote, lote_commits, transacciones, outcome>>

\* _report(40, ...) and _process_cuentas_contables
ProcessCuentas ==
    /\ pc = "cuentas"
    /\ Report(40)
    /\ base_df' = process_cuentas_contables(base_df)
    /\ pc' = "monetary"
    /\ UNCHANGED <<reader_vars, other_vars, file_list, chunk_size, read_vars, offset,
                   total_insertados, error, lote, lote_commits, transacciones, outcome>>

\* _report(50, ...) and _convert_monetary_values
ConvertMonetary ==
    /\ pc = "monetary"
    /\ Report(50)
    /\ base_df' = convert_monetary_values(base_df)
    /\ pc' = "balances"
    /\ UNCHANGED <<reader_vars, other_vars, file_list, chunk_size, read_vars, offset,
                   total_insertados, error, lote, lote_commits, transacciones, outcome>>

\* _report(60, ...) and _calculate_balances
CalculateBalances ==
    /\ pc = "balances"
    /\ Report(60)
    /\ base_df' = calculate_balances(base_df)
    /\ pc' = "dates"
    /\ UNCHANGED <<reader_vars, other_vars, file_list, chunk_size, read_vars, offset,
                   total_insertados, error, lote, lote_commits, transacciones, outcome>>

\* _report(75, ...) and _convert_dates
ConvertDates ==
    /\ pc = "dates"
    /\ Report(75)
    /\ base_df' = convert_dates(base_df)
    /\ pc' = "insert_start"
    /\ UNCHANGED <<reader_vars, other_vars, file_list, chunk_size, read_vars, offset,
                   total_insertados, error, lote, lote_commits, transacciones, outcome>>

\* _report(80, ...) and the entry of _insert_into_database
StartInsert ==
    /\ pc = "insert_start"
    /\ Report(80)
    /\ offset' = 0
    /\ total_insertados' = 0
    /\ pc' = "insert"
    /\ UNCHANGED <<reader_vars, other_vars, file_list, chunk_size, read_vars, base_df, error,
                   lote, lote_commits, transacciones, outcome>>

\* one chunk is saved and committed, and the progress reported
InsertChunk ==
    /\ pc = "insert"
    /\ offset < Len(base_df)
    /\ LET chunk == Chunk(base_df, offset, chunk_size)
       IN /\ ~ChunkRejected(chunk)
          /\ transacciones' = transacciones \o
                [k \in 1..Len(chunk) |-> Transaccion(chunk[k], LoteId, Usuario)]
          /\ total_insertados' = total_insertados + Len(chunk)
          /\ Report(InsertProgress(total_insertados + Len(chunk), Len(base_df)))
    /\ offset' = offset + chunk_size
    /\ UNCHANGED <<reader_vars, other_vars, file_list, chunk_size, pc, read_vars, base_df, error,
                   lote, lote_commits, outcome>>

\* a variant of the failing chunk without the rollback, the rows of the chunk
\* staying in the table: the persisted rows of C6 tell the two apart
InsertChunkFailsNoRollback ==
    /\ pc = "insert"
    /\ offset < Len(base_df)
    /\ error' = [tipo |-> "OperationalError", msg |-> InsertErrorMessage]
    /\ LET chunk == Chunk(base_df, offset, chunk_size)
       IN transacciones' = transacciones \o
             [k \in 1..Len(chunk) |-> Transaccion(chunk[k], LoteId, Usuario)]
    /\ pc' = "except"
    /\ UNCHANGED <<reader_vars, other_vars, file_list, chunk_size, read_vars, base_df, offset,
                   total_insertados, lote, lote_commits, progress, outcome>>

\* bulk_save_objects or commit raises (the database refuses the chunk, or is
\* not reachable): rollback, and the exception leaves _insert_into_database
InsertChunkFails ==
    /\ pc = "insert"
    /\ offset < Len(base_df)
    /\ error' = [tipo |-> IF ChunkRejected(Chunk(base_df, offset, chunk_size))
                          THEN "IntegrityError" ELSE "OperationalError",
                 msg |-> InsertErrorMessage]
    /\ pc' = "except"
    /\ UNCHANGED <<reader_vars, other_vars, file_list, chunk_size, read_vars, base_df, offset,
                   total_insertados, lote, lote_commits, progress, transacciones, outcome>>

\* a variant of _complete_lote called with its two counts exchanged: the
\* record count of C24 tells the two apart
CompleteLoteSwapped ==
    /\ pc = "insert"
    /\ offset >= Len(base_df)
    /\ CommitLote("completado", CompletedMessage(Len(archivos_procesados), Len(base_df)),
                  Len(archivos_procesados))
    /\ pc' = "report100"
    /\ UNCHANGED <<reader_vars, other_vars, file_list, chunk_size, read_vars, base_df, offset,
                   total_insertados, error, progress, transacciones, outcome>>

\* the insert loop is over: _complete_lote
CompleteLote ==
    /\ pc = "insert"
    /\ offset >= Len(base_df)
    /\ CommitLote("completado", CompletedMessage(Len(base_df), Len(archivos_procesados)),
                  Len(base_df))
    /\ pc' = "report100"
    /\ UNCHANGED <<reader_vars, other_vars, file_list, chunk_size, read_vars, base_df, offset,
                   total_insertados, error, progress, transacciones, outcome>>

\* a variant of the return without the last report: the last percentage of
\* C8 tells the two apart
ReturnResultSilent ==
    /\ pc = "report100"
    /\ outcome' = "returned"
    /\ pc' = "done"
    /\ UNCHANGED <<reader_vars, other_vars, file_list, chunk_size, read_vars, base_df, offset,
                   total_insertados, error, lote, lote_commits, progress, transacciones>>

\* _report(100, ...) and return lote_id, len(base_df)
ReturnResult ==
    /\ pc = "report100"
    /\ Report(100)
    /\ outcome' = "returned"
    /\ pc' = "done"
    /\ UNCHANGED <<reader_vars, other_vars, file_list, chunk_size, read_vars, base_df, offset,
                   total_insertados, error, lote, lote_commits, transacciones>>

\* except Exception as e: _handle_error(lote, e), then raise
HandleError ==
    /\ pc = "except"
    /\ CommitLote("error", ErrorMessage(error), lote.total_registros)
    /\ outcome' = "raised"
    /\ pc' = "done"
    /\ UNCHANGED <<reader_vars, other_vars, file_list, chunk_size, read_vars, base_df, offset,
                   total_insertados, error, progress, transacciones>>

Next ==
    \/ CreateLote
    \/ SubmitReads
    \/ \E k \in 1..Len(tasks) : StartTask(k)
    \/ \E k \in 1..Len(tasks) : FinishTask(k)
    \/ AsCompleted
    \/ \E k \in 1..Len(tasks) : FutureWithRecords(k)
    \/ \E k \in 1..Len(tasks) : FutureEmpty(k)
    \/ \E k \in 1..Len(tasks) : FutureRaised(k)
    \/ NoFilesProcessed
    \/ Consolidate
    \/ ProcessCuentas
    \/ ConvertMonetary
    \/ CalculateBalances
    \/ ConvertDates
    \/ StartInsert
    \/ InsertChunk
    \/ InsertChunkFails
    \/ CompleteLote
    \/ ReturnResult
    \/ HandleError

Spec == Init /\ [][Next]_vars

(***************************************************************************)
(* Properties of the orchestrator (specification Spec)                     *)
(***************************************************************************)

Range(q) == {q[k] : k \in 1..Len(q)}

\* _calculate_balances has run on base_df (it runs with _report(60, ...))
BalancePassed == 60 \in Range(progress)

\* the records as the reader produced them, in merged order
MergedRaw == pd_concat(frames)

\* the nearest earlier record of the same account in base_df, 0 when k is the
\* first record of its account
PrevOfCuenta(k) ==
    LET earlier == {j \in 1..(k - 1) : base_df[j].cuenta_contable = base_df[k].cuenta_contable}
    IN IF earlier = {} THEN 0 ELSE CHOOSE j \in earlier : \A o \in earlier : o <= j

\* C1: after the running-balance pass, the first record of every account
\* closes at its own opening (the amount the reader produced) plus debit minus
\* credit, and every later record of the account opens at the closing of the
\* record before it and closes at that opening plus debit minus credit.
C1_BalanceChain ==
    BalancePassed =>
        \A k \in 1..Len(base_df) :
            /\ base_df[k].cargos = to_numeric_fast(MergedRaw[k].cargos)
            /\ base_df[k].abonos = to_numeric_fast(MergedRaw[k].abonos)
            /\ base_df[k].saldo_final =
                   base_df[k].saldo_inicial + base_df[k].cargos - base_df[k].abonos
            /\ IF PrevOfCuenta(k) = 0
               THEN base_df[k].saldo_inicial = to_numeric_fast(MergedRaw[k].saldo_inicial)
               ELSE base_df[k].saldo_inicial = base_df[PrevOfCuenta(k)].saldo_final

\* C1 witness: a later record of an account whose own opening text differs
\* from the closing it is made to open at, and with a nonzero movement
C1_Witness ==
    /\ BalancePassed
    /\ \E k \in 1..Len(base_df) :
          /\ PrevOfCuenta(k) # 0
          /\ to_numeric_fast(MergedRaw[k].saldo_inicial) # base_df[k].saldo_inicial
          /\ base_df[k].cargos # base_df[k].abonos
          /\ base_df[k].saldo_final # to_numeric_fast(MergedRaw[k].saldo_final)

\* the position at which the as_completed loop took the file of a record
TakenPos(archivo) == CHOOSE i \in 1..Len(archivos_procesados) : archivos_procesados[i] = archivo

RECURSIVE SortedByFile(_)
\* the frames in the order of the submitted file list
SortedByFile(fs) ==
    IF fs = {} THEN <<>>
    ELSE LET first == CHOOSE f \in fs : \A g \in fs : f[1].archivo_origen <= g[1].archivo_origen
         IN <<first>> \o SortedByFile(fs \ {first})

\* the balances of the records merged in the order of the submitted file list
SubmissionOrderBalances ==
    calculate_balances(convert_monetary_values(process_cuentas_contables(
        pd_concat(SortedByFile(Range(frames))))))

\* C2 as stated: whatever the order in which the reads complete, the balance
\* of an account chains across the files in the order of the submitted list.
C2_SubmissionOrder ==
    BalancePassed =>
        \A k \in 1..Len(base_df) :
            \E m \in 1..Len(SubmissionOrderBalances) :
                /\ SubmissionOrderBalances[m].archivo_origen = base_df[k].archivo_origen
                /\ SubmissionOrderBalances[m].fila = base_df[k].fila
                /\ SubmissionOrderBalances[m].saldo_inicial = base_df[k].saldo_inicial
                /\ SubmissionOrderBalances[m].saldo_final = base_df[k].saldo_final

\* C2 amended: the balance of an account chains across the files in the order
\* in which the as_completed loop took their reads (within one file in row
\* order), and in no other order, that of the dates included.
C2_CompletionOrder ==
    BalancePassed =>
        \A k \in 1..Len(base_df) :
            PrevOfCuenta(k) # 0 =>
                LET p == PrevOfCuenta(k)
                IN /\ base_df[k].saldo_inicial = base_df[p].saldo_final
                   /\ \/ TakenPos(base_df[p].archivo_origen) < TakenPos(base_df[k].archivo_origen)
                      \/ /\ base_df[p].archivo_origen = base_df[k].archivo_origen
                         /\ base_df[p].fila < base_df[k].fila

\* C2 witness: two files share an account and the read of the second
\* submitted file was taken first, so the chain runs against the list order
C2_Witness ==
    /\ BalancePassed
    /\ \E k \in 1..Len(base_df) :
          /\ PrevOfCuenta(k) # 0
          /\ base_df[PrevOfCuenta(k)].archivo_origen > base_df[k].archivo_origen

\* the committed writes of a terminal estado
TerminalCommits ==
    {k \in 1..Len(lote_commits) : lote_commits[k].estado \in {"completado", "error"}}

\* C3: the batch is created "procesando" and its estado is written to a
\* terminal value once; after that neither estado nor mensaje is written.
C3_TerminalOnce ==
    /\ Len(lote_commits) > 0 => lote_commits[1].estado = "procesando"
    /\ Cardinality(TerminalCommits) <= 1
    /\ pc = "done" => Cardinality(TerminalCommits) = 1

\* no submitted file yields a record
NoFileYields ==
    \A k \in 1..Len(file_list) : FutureResult(k).raised \/ FutureResult(k).df = <<>>

\* C4: when no submitted file yields a record, the batch ends "error" with a
\* message that names every failed file, the call raises, and no transaction
\* is persisted.
C4_NoFilesFails ==
    NoFileYields =>
        /\ transacciones = <<>>
        /\ outcome # "returned"
        /\ pc = "done" =>
              /\ outcome = "raised"
              /\ lote.estado = "error"
              /\ lote.mensaje.texto = NoFilesMessage(<<>>).texto
              /\ Range(lote.mensaje.archivos) = 1..Len(file_list)

\* C4 witness: a finished run over two files, one whose read raised and one
\* that has no header
C4_Witness ==
    /\ pc = "done"
    /\ NoFileYields
    /\ Len(file_list) = 2
    /\ \E k \in 1..Len(file_list) : FutureResult(k).raised
    /\ \E k \in 1..Len(file_list) : ~FutureResult(k).raised

\* a persistence commit has failed
CommitFailed == error.tipo \in {"IntegrityError", "OperationalError"}

\* where every record of the files that yield records comes from: <<file, row>>
YieldedRows ==
    UNION { {<<k, FutureResult(k).df[i].fila>> : i \in 1..Len(FutureResult(k).df)} :
            k \in 1..Len(file_list) }

\* the persisted row that comes from the record rec of file k, if any
PersistedFrom(k, rec) ==
    {t \in 1..Len(transacciones) :
        /\ transacciones[t].archivo_origen = k
        /\ transacciones[t].fila = rec.fila}

\* C5: a failed read never aborts the run: when some file yields records and
\* no commit fails, the call returns, the batch ends "completado", and the
\* persisted rows are exactly the records of the files that yielded records.
C5_SoftFailure ==
    (pc = "done" /\ ~NoFileYields /\ ~CommitFailed) =>
        /\ outcome = "returned"
        /\ lote.estado = "completado"
        /\ Len(transacciones) = Cardinality(YieldedRows)
        /\ \A k \in 1..Len(file_list) :
              \A i \in 1..Len(FutureResult(k).df) :
                  LET rec == FutureResult(k).df[i]
                  IN /\ Cardinality(PersistedFrom(k, rec)) = 1
                     /\ \A t \in PersistedFrom(k, rec) :
                           /\ transacciones[t].lote_id = LoteId
                           /\ transacciones[t].cuenta_contable = rec.cuenta_contable
                           /\ transacciones[t].poliza = rec.poliza
                           /\ transacciones[t].cargos = to_numeric_fast(rec.cargos)
                           /\ transacciones[t].abonos = to_numeric_fast(rec.abonos)

\* C5 witness: a run that returned although one read raised and another file
\* yielded records
C5_Witness ==
    /\ pc = "done"
    /\ outcome = "returned"
    /\ \E k \in 1..Len(file_list) : FutureResult(k).raised
    /\ transacciones # <<>>

\* C6: when the commit of a chunk fails, the persisted rows are exactly the
\* records of the chunks before it (none of the failed chunk, none of a later
\* one), and the run ends with the batch "error" and the call raising.
C6_ChunkFailure ==
    CommitFailed =>
        /\ offset % chunk_size = 0
        /\ offset < Len(base_df)
        /\ total_insertados = offset
        /\ transacciones = [k \in 1..offset |-> Transaccion(base_df[k], LoteId, Usuario)]
        /\ pc \in {"except", "done"}
        /\ pc = "done" => (lote.estado = "error" /\ outcome = "raised")

\* C6 witness: a finished run whose second of three chunks failed
C6_Witness ==
    /\ pc = "done"
    /\ CommitFailed
    /\ offset = chunk_size
    /\ offset + chunk_size < Len(base_df)
    /\ Len(transacciones) = chunk_size

\* C7: the percentages handed to the progress sink never decrease and lie in
\* 0..100.
C7_ProgressMonotone ==
    /\ \A i \in 1..Len(progress) : progress[i] >= 0 /\ progress[i] <= 100
    /\ \A i \in 1..Len(progress) : \A j \in i..Len(progress) : progress[i] <= progress[j]

\* C7 witness: three chunks were reported, at three different percentages
C7_Witness ==
    /\ pc = "done"
    /\ \E i \in 1..Len(progress) :
          /\ i + 3 <= Len(progress)
          /\ progress[i] = 80
          /\ progress[i] < progress[i + 1]
          /\ progress[i + 1] < progress[i + 2]
          /\ progress[i + 2] < progress[i + 3]
          /\ progress[i + 3] = 95

\* C8 as stated: the last percentage of every run is 100.
C8_LastIs100 ==
    pc = "done" => (Len(progress) > 0 /\ progress[Len(progress)] = 100)

\* C8 amended: the last percentage of every run that returns is 100; a run
\* that raises ends below 100.
C8_LastIs100WhenReturned ==
    pc = "done" =>
        /\ Len(progress) > 0
        /\ outcome = "returned" => progress[Len(progress)] = 100
        /\ outcome = "raised" => progress[Len(progress)] < 100

\* C8 witness: a run that returned
C8_Witness ==
    /\ pc = "done"
    /\ outcome = "returned"
    /\ Len(progress) > 0

(***************************************************************************)
(* Properties of the sheet reader (specification SpecReader)               *)
(***************************************************************************)

\* the grid the reader traverses
ReaderRaw == pd_read_excel(r_content)

\* the row of 0-based index idx is a "CUENTA CONTABLE:" marker row
IsMarkerRow(idx) ==
    Contains(Upper(Strip(CellStr(ReaderRaw[idx + 1][1]))), CuentaMarker)

\* the marker rows above the row of index idx
MarkersAbove(idx) == {m \in 0..(idx - 1) : IsMarkerRow(m)}

\* the most recent marker row above the row of index idx
LastMarkerAbove(idx) ==
    CHOOSE m \in MarkersAbove(idx) : \A other \in MarkersAbove(idx) : other <= m

\* the first row the loop visits
ReaderStart == StartIdx(ReaderRaw, detect_header_row(ReaderRaw))

\* C9: the reader emits a record only while an account is active: every
\* emitted record carries the code and the name of the most recent
\* "CUENTA CONTABLE:" row above it, that code is not empty, and no record
\* comes from a row above the first marker row the loop visits.
C9_OnlyWhileAccountActive ==
    \A i \in 1..Len(r_ctx.records) :
        LET rec == r_ctx.records[i]
        IN /\ Truthy(rec.cuenta_contable)
           /\ MarkersAbove(rec.fila) # {}
           /\ LastMarkerAbove(rec.fila) >= ReaderStart
           /\ LET cn == parse_cuenta_line(
                            Strip(CellStr(ReaderRaw[LastMarkerAbove(rec.fila) + 1][1])))
              IN /\ rec.cuenta_contable = cn[1]
                 /\ rec.nombre_cuenta = cn[2]

\* C9 witness: a finished traversal that emitted a record and dropped a row
\* above the first marker which would have been a record under an account
C9_Witness ==
    /\ r_pc = "done"
    /\ r_df # <<>>
    /\ \E idx \in ReaderStart..(Len(ReaderRaw) - 1) :
          /\ MarkersAbove(idx) = {}
          /\ ~IsMarkerRow(idx)
          /\ parse_transaction_row(ReaderRaw[idx + 1], <<"1">>, <<>>, None, idx) # <<>>
          /\ \A i \in 1..Len(r_df) : r_df[i].fila # idx

HeaderLike(idx) ==
    LET text == Lower(RowText(ReaderRaw[idx + 1]))
    IN /\ Contains(text, <<"f", "e", "c", "h", "a">>)
       /\ \/ Contains(text, <<"p", "o", "l", "i", "z", "a">>)
          \/ Contains(text, <<"s", "a", "l", "d", "o">>)

\* the rows among the first 20 that read as a header
HeaderRows == {idx \in 0..(Len(ReaderRaw) - 1) : idx < 20 /\ HeaderLike(idx)}

\* C11: on a grid of 2 rows or more the reader takes as header the smallest
\* row index below 20 that reads as a header, and starts the row loop right
\* below it (one row further below a second header row); when no row below
\* index 20 reads as a header it returns the empty frame; it does not raise.
C11_HeaderDetection ==
    [][ (r_pc = "start" /\ r_pc' # "start" /\ r_content.kind = "grid" /\ Len(ReaderRaw) >= 2) =>
            IF HeaderRows = {}
            THEN r_pc' = "done" /\ r_df' = <<>>
            ELSE /\ r_pc' = "rows"
                 /\ \E h \in HeaderRows :
                       /\ \A other \in HeaderRows : h <= other
                       /\ r_idx' = StartIdx(ReaderRaw, h) ]_vars

\* C11 witness: a grid whose only header row has index 20 was returned empty
C11_Witness ==
    /\ r_pc = "done"
    /\ r_df = <<>>
    /\ Len(ReaderRaw) > 20
    /\ HeaderLike(20)
    /\ HeaderRows = {}

\* the texts of the monetary cells of a row, in column order
MonetaryTexts(row) ==
    LET cols == analyze_columns(row)
        mon  == SelectSeq(cols, LAMBDA c : c.is_monetary)
    IN [i \in 1..Len(mon) |-> mon[i].value]

\* every amount the classifier keeps of the row is a monetary cell
OnlyMonetaryAmounts(row) ==
    \A i \in 1..Len(classify_columns(analyze_columns(row)).monetary_cols) :
        classify_columns(analyze_columns(row)).monetary_cols[i].is_monetary

\* the record the step appends, if it appends one
Emits == Len(r_ctx'.records) = Len(r_ctx.records) + 1

\* C12: a row with 4 monetary cells gives (opening, debit, credit, closing) =
\* (m1, m2, m3, m4); with 3, (s, m1, m2, m3); with 2, (s, empty, m1, m2); s is
\* the opening balance stored for the section, the empty text when none is.
C12_MonetarySlots ==
    [][ (Emits /\ OnlyMonetaryAmounts(ReaderRaw[r_idx + 1])) =>
            LET rec == r_ctx'.records[Len(r_ctx'.records)]
                m   == MonetaryTexts(ReaderRaw[r_idx + 1])
                s   == IF r_ctx.saldo = None THEN <<>> ELSE r_ctx.saldo
                got == <<rec.saldo_inicial, rec.cargos, rec.abonos, rec.saldo_final>>
            IN /\ Len(m) = 4 => got = <<m[1], m[2], m[3], m[4]>>
               /\ Len(m) = 3 => got = <<s, m[1], m[2], m[3]>>
               /\ Len(m) = 2 => got = <<s, <<>>, m[1], m[2]>> ]_vars

\* C12 witness: a record of two monetary cells under a stored opening balance,
\* next to a record of three
C12_Witness ==
    /\ r_pc = "done"
    /\ \E i \in 1..Len(r_df) :
          /\ Len(MonetaryTexts(ReaderRaw[r_df[i].fila + 1])) = 2
          /\ r_df[i].saldo_inicial = T_1000
          /\ r_df[i].cargos = <<>>
          /\ r_df[i].abonos = T_200
    /\ \E i \in 1..Len(r_df) : Len(MonetaryTexts(ReaderRaw[r_df[i].fila + 1])) = 3

(***************************************************************************)
(* The account code decoder, one call                                      *)
(***************************************************************************)

\* longest of the short arguments
MaxCodeLen == 2

\* the characters of the short arguments: a digit, a lowercase letter, an
\* uppercase letter, a separator and a blank
CodeAlphabet == {"1", "a", "Z", "-", " "}

\* 19 characters, all different
CodeCore == <<"2", "3", "4", "5", "6", "7", "8", "9", "0", "A", "B", "C", "D", "E", "F",
              "G", "H", "I", "J">>

\* codes of 21 digits and uppercase letters
CanonicalCodes == {<<a>> \o CodeCore \o <<b>> : a, b \in {"1", "K", "L", "0"}}

\* the arguments: short strings (the empty one among them), codes of 21
\* characters, the same in lowercase, with 2 characters too many, and with
\* separators and blanks around and within
DecoderInputs ==
    SeqsUpTo(CodeAlphabet, MaxCodeLen)
        \cup CanonicalCodes
        \cup {Lower(c) : c \in CanonicalCodes}
        \cup {c \o <<"X", "Y">> : c \in CanonicalCodes}
        \cup {<<" ">> \o SubSeq(c, 1, 5) \o <<"-">> \o SubSeq(c, 6, 21) \o <<".", " ">> :
                 c \in CanonicalCodes}

DecoderInit ==
    /\ d_cuenta_str \in DecoderInputs
    /\ d_pc = "start"
    /\ d_componentes = <<>>
    /\ NumericIdle
    /\ JobsIdle
    /\ MergeIdle
    /\ ReaderIdle
    /\ ProcessIdle

\* parse_cuenta_contable(cuenta_str) returns
DecodeCall ==
    /\ d_pc = "start"
    /\ d_componentes' = parse_cuenta_contable(d_cuenta_str)
    /\ d_pc' = "done"
    /\ UNCHANGED <<d_cuenta_str, numeric_vars, job_vars, merge_vars, reader_vars, process_vars>>

DecoderNext == DecodeCall

SpecDecoder == DecoderInit /\ [][DecoderNext]_vars

(***************************************************************************)
(* Properties of the decoder (specification SpecDecoder)                   *)
(***************************************************************************)

\* the 13 fields in field order, and their widths
FieldOrder ==
    <<"genero", "grupo", "rubro", "cuenta", "subcuenta", "dependencia",
      "unidad_responsable", "centro_costo", "proyecto_presupuestario", "fuente",
      "subfuente", "tipo_recurso", "partida_presupuestal">>

FieldWidths == <<1, 1, 1, 1, 1, 2, 2, 2, 2, 1, 2, 1, 4>>

RECURSIVE ConcatFields(_, _)
\* the first n fields of c, concatenated in field order
ConcatFields(c, n) ==
    IF n = 0 THEN <<>> ELSE ConcatFields(c, n - 1) \o c[FieldOrder[n]]

\* the first 21 characters of the code in uppercase, without what is not a
\* digit or a letter, padded with "0" on the right
ExpectedCode(text) ==
    LET up     == Upper(text)
        kept   == SelectSeq(up, LAMBDA ch : ch \in Digits \/ \E i \in 1..26 : UpperLetters[i] = ch)
        padded == kept \o [i \in 1..21 |-> "0"]
    IN SubSeq(padded, 1, 21)

\* C13: for every argument the decoder returns (it does not raise) exactly 13
\* fields, of widths 1,1,1,1,1,2,2,2,2,1,2,1,4, which together are the first
\* 21 characters of the upper-cased, stripped, zero-padded code.
C13_DecoderTotal ==
    /\ d_pc = "start" => ENABLED DecodeCall
    /\ d_pc = "done" =>
          /\ DOMAIN d_componentes = {FieldOrder[i] : i \in 1..13}
          /\ \A i \in 1..13 : Len(d_componentes[FieldOrder[i]]) = FieldWidths[i]
          /\ ConcatFields(d_componentes, 13) = ExpectedCode(d_cuenta_str)

\* C13 witness: a decoded argument of more than 21 characters with
\* separators and blanks
C13_Witness ==
    /\ d_pc = "done"
    /\ Len(d_cuenta_str) > 21
    /\ \E i \in 1..Len(d_cuenta_str) : d_cuenta_str[i] = "-"

\* C14: the fields of a code of 21 digits and uppercase letters, concatenated
\* in field order, are the code.
C14_RoundTrip ==
    (/\ d_pc = "done"
     /\ Len(d_cuenta_str) = 21
     /\ \A i \in 1..21 : d_cuenta_str[i] \in Digits \/ \E j \in 1..26 : UpperLetters[j] = d_cuenta_str[i])
        => ConcatFields(d_componentes, 13) = d_cuenta_str

\* C14 witness: a decoded code of 21 digits and uppercase letters
C14_Witness ==
    /\ d_pc = "done"
    /\ Len(d_cuenta_str) = 21
    /\ \A i \in 1..21 : d_cuenta_str[i] \in Digits \/ \E j \in 1..26 : UpperLetters[j] = d_cuenta_str[i]
    /\ d_componentes.partida_presupuestal = <<"H", "I", "J", "K">>

(***************************************************************************)
(* The monetary normalizer, one call                                       *)
(***************************************************************************)

\* the amounts from 0.00 to MaxCents hundredths are all rendered
MaxCents == 25

\* larger amounts: around one unit, beyond a thousand and beyond a million
LargeAmounts == {99, 100, 110, 1550, 99999, 100000, 123456, 100000000, 123456789}

\* the amounts rendered, in hundredths
Amounts ==
    LET positive == (0..MaxCents) \cup LargeAmounts
    IN positive \cup {0 - x : x \in positive}

DigitChar(d) == <<"0", "1", "2", "3", "4", "5", "6", "7", "8", "9">>[d + 1]

RECURSIVE DigitsOf(_)
\* the decimal digits of a natural number
DigitsOf(n) == IF n < 10 THEN <<DigitChar(n)>> ELSE DigitsOf(n \div 10) \o <<DigitChar(n % 10)>>

RECURSIVE Grouped(_)
\* digits with a comma before every group of three
Grouped(ds) ==
    IF Len(ds) <= 3 THEN ds
    ELSE Grouped(SubSeq(ds, 1, Len(ds) - 3)) \o <<",">> \o SubSeq(ds, Len(ds) - 2, Len(ds))

\* the text of an amount with 2 fractional digits: f"{x:.2f}" and f"{x:,.2f}"
Render(x, grouped) ==
    LET mag  == IF x < 0 THEN 0 - x ELSE x
        ip   == DigitsOf(mag \div 100)
        sign == IF x < 0 THEN <<"-">> ELSE <<>>
    IN sign \o (IF grouped THEN Grouped(ip) ELSE ip) \o <<".">>
            \o <<DigitChar((mag % 100) \div 10), DigitChar(mag % 10)>>

\* the renderings of an amount: plain, with thousands separators, and these
\* behind a currency sign and a blank
Renderings(x) ==
    {Render(x, g) : g \in BOOLEAN} \cup {<<"$", " ">> \o Render(x, g) : g \in BOOLEAN}

\* texts that are no amount once every character but digits, "." and "-" is
\* removed
MalformedTexts ==
    { <<>>, <<" ">>, <<"n", "/", "a">>, NaN, None, <<"-">>, <<".">>, <<"-", ".">>,
      <<"1", "-", "2">>, <<"1", ".", "2", ".", "3">>, <<"-", "-", "1">>, <<"1", "-">>,
      <<"2", "5", "-", "0", "1", "-", "2", "0", "2", "4">> }

\* the renderings of every amount
RenderingTable == [x \in Amounts |-> Renderings(x)]

NumericInputs == UNION {RenderingTable[x] : x \in Amounts} \cup MalformedTexts

NumericInit ==
    /\ n_text \in NumericInputs
    /\ n_pc = "start"
    /\ n_value = 0
    /\ DecoderIdle
    /\ JobsIdle
    /\ MergeIdle
    /\ ReaderIdle
    /\ ProcessIdle

\* to_numeric_fast(series) returns
NumericCall ==
    /\ n_pc = "start"
    /\ n_value' = to_numeric_fast(n_text)
    /\ n_pc' = "done"
    /\ UNCHANGED <<n_text, decoder_vars, job_vars, merge_vars, reader_vars, process_vars>>

NumericNext == NumericCall

SpecNumeric == NumericInit /\ [][NumericNext]_vars

(***************************************************************************)
(* Properties of the normalizer (specification SpecNumeric)                *)
(***************************************************************************)

\* the text without every character but digits, "." and "-"
KeptText == SelectSeq(n_text, LAMBDA ch : ch \in Digits \cup {".", "-"})

\* a decimal literal: an optional "-", digits, at most one "." among them, a
\* digit at least
IsDecimalLiteral(t) ==
    LET body == IF Len(t) > 0 /\ t[1] = "-" THEN Tail(t) ELSE t
    IN /\ \A i \in 1..Len(body) : body[i] \in Digits \cup {"."}
       /\ Cardinality({i \in 1..Len(body) : body[i] = "."}) <= 1
       /\ \E i \in 1..Len(body) : body[i] \in Digits

\* C15: the normalizer returns a number for every text (a call ends in no
\* other way); the text of an amount with 2 fractional digits gives the
\* amount; a text that is empty or no decimal literal once every character
\* but digits, "." and "-" is removed gives 0.00.
C15_NormalizerRoundTrip ==
    /\ n_pc \in {"idle", "start", "done"}
    /\ n_pc = "done" =>
          /\ n_value \in Int
          /\ \A x \in Amounts : n_text \in RenderingTable[x] => n_value = x
          /\ ~IsDecimalLiteral(KeptText) => n_value = 0

\* C15 witness: a negative amount beyond a thousand, written with separators
\* behind a currency sign, was converted
C15_Witness ==
    /\ n_pc = "done"
    /\ n_text = <<"$", " ", "-", "1", ",", "2", "3", "4", ".", "5", "6">>
    /\ n_value = 0 - 123456

(***************************************************************************)
(* The job registry of the upload routes: one upload, its background       *)
(* thread and one progress stream                                          *)
(***************************************************************************)

\* the percentages the processor hands to progress_callback on a run that
\* returns, without the per-chunk ones
Stages == <<5, 30, 80, 100>>

StageMessage ==
    [p \in {5, 30, 80, 100} |->
        CASE p = 5 -> "Leyendo..."
          [] p = 30 -> "Consolidando datos..."
          [] p = 80 -> "Insertando..."
          [] p = 100 -> "Completado"]

\* what process_files of the processor returns on this run: (lote_id, total)
ReturnedLote == 1

ReturnedTotal == 2

\* str(e) of the exception of a run that raises
RaisedText == "boom"

\* the data yielded when the stream gives up
TimeoutEvent == [progress |-> 100, message |-> "Timeout", done |-> TRUE]

JobsInit ==
    /\ jobs = NoJobs
    /\ jobs_lock = "free"
    /\ u_pc = "start"
    /\ w_pc = "idle"
    /\ w_stage = 0
    /\ s_job_id = "none"
    /\ s_pc = "idle"
    /\ s_job = FALSE
    /\ s_cur = NoLocals
    /\ s_last = -1
    /\ s_event = NoEvent
    /\ DecoderIdle
    /\ NumericIdle
    /\ MergeIdle
    /\ ReaderIdle
    /\ ProcessIdle

JobsFrame == UNCHANGED <<decoder_vars, numeric_vars, merge_vars, reader_vars, process_vars>>

\* upload_files: no file, or no valid file: 400, no job
UploadReject ==
    /\ u_pc = "start"
    /\ u_pc' = "rejected"
    /\ UNCHANGED <<jobs, jobs_lock, w_pc, w_stage, s_job_id, s_pc, s_job, s_cur, s_last,
                   s_event>>
    /\ JobsFrame

\* upload_files: with jobs_lock (enter)
UploadAcquire ==
    /\ u_pc = "start"
    /\ jobs_lock = "free"
    /\ jobs_lock' = "upload"
    /\ u_pc' = "locked"
    /\ UNCHANGED <<jobs, w_pc, w_stage, s_job_id, s_pc, s_job, s_cur, s_last, s_event>>
    /\ JobsFrame

\* upload_files: jobs[job_id] = {...}
UploadCreate ==
    /\ u_pc = "locked"
    /\ jobs' = NewJob
    /\ u_pc' = "stored"
    /\ UNCHANGED <<jobs_lock, w_pc, w_stage, s_job_id, s_pc, s_job, s_cur, s_last, s_event>>
    /\ JobsFrame

\* upload_files: with jobs_lock (exit)
UploadRelease ==
    /\ u_pc = "stored"
    /\ jobs_lock' = "free"
    /\ u_pc' = "created"
    /\ UNCHANGED <<jobs, w_pc, w_stage, s_job_id, s_pc, s_job, s_cur, s_last, s_event>>
    /\ JobsFrame

\* upload_files: thread.start()
UploadStartThread ==
    /\ u_pc = "created"
    /\ u_pc' = "started"
    /\ w_pc' = "run"
    /\ UNCHANGED <<jobs, jobs_lock, w_stage, s_job_id, s_pc, s_job, s_cur, s_last, s_event>>
    /\ JobsFrame

\* upload_files: return jsonify({"job_id": job_id})
UploadRespond ==
    /\ u_pc = "started"
    /\ u_pc' = "responded"
    /\ UNCHANGED <<jobs, jobs_lock, w_pc, w_stage, s_job_id, s_pc, s_job, s_cur, s_last,
                   s_event>>
    /\ JobsFrame

\* progress_callback: with jobs_lock (enter), on the processor's next report
CallbackAcquire ==
    /\ w_pc = "run"
    /\ w_stage < Len(Stages)
    /\ jobs_lock = "free"
    /\ jobs_lock' = "worker"
    /\ w_pc' = "cb_progress"
    /\ UNCHANGED <<jobs, u_pc, w_stage, s_job_id, s_pc, s_job, s_cur, s_last, s_event>>
    /\ JobsFrame

\* progress_callback: if job_id in jobs: jobs[job_id]["progress"] = pct
\* (the job is never removed, so the test never fails)
CallbackProgress ==
    /\ w_pc = "cb_progress"
    /\ jobs.exists
    /\ jobs' = [jobs EXCEPT !.progress = Stages[w_stage + 1]]
    /\ w_pc' = "cb_message"
    /\ UNCHANGED <<jobs_lock, u_pc, w_stage, s_job_id, s_pc, s_job, s_cur, s_last, s_event>>
    /\ JobsFrame

\* progress_callback: jobs[job_id]["message"] = msg
CallbackMessage ==
    /\ w_pc = "cb_message"
    /\ jobs' = [jobs EXCEPT !.message = StageMessage[Stages[w_stage + 1]]]
    /\ w_pc' = "cb_release"
    /\ UNCHANGED <<jobs_lock, u_pc, w_stage, s_job_id, s_pc, s_job, s_cur, s_last, s_event>>
    /\ JobsFrame

\* progress_callback: with jobs_lock (exit)
CallbackRelease ==
    /\ w_pc = "cb_release"
    /\ jobs_lock' = "free"
    /\ w_stage' = w_stage + 1
    /\ w_pc' = "run"
    /\ UNCHANGED <<jobs, u_pc, s_job_id, s_pc, s_job, s_cur, s_last, s_event>>
    /\ JobsFrame

\* processor.process_files raises, before its last report
ProcessorRaises ==
    /\ w_pc = "run"
    /\ w_stage < Len(Stages)
    /\ w_pc' = "except"
    /\ UNCHANGED <<jobs, jobs_lock, u_pc, w_stage, s_job_id, s_pc, s_job, s_cur, s_last,
                   s_event>>
    /\ JobsFrame

\* except: with jobs_lock (enter)
ExceptAcquire ==
    /\ w_pc = "except"
    /\ jobs_lock = "free"
    /\ jobs_lock' = "worker"
    /\ w_pc' = "err_error"
    /\ UNCHANGED <<jobs, u_pc, w_stage, s_job_id, s_pc, s_job, s_cur, s_last, s_event>>
    /\ JobsFrame

\* except: jobs[job_id]["error"] = error_msg
ExceptError ==
    /\ w_pc = "err_error"
    /\ jobs' = [jobs EXCEPT !.error = RaisedText]
    /\ w_pc' = "err_done"
    /\ UNCHANGED <<jobs_lock, u_pc, w_stage, s_job_id, s_pc, s_job, s_cur, s_last, s_event>>
    /\ JobsFrame

\* except: jobs[job_id]["done"] = True
ExceptDone ==
    /\ w_pc = "err_done"
    /\ jobs' = [jobs EXCEPT !.done = TRUE]
    /\ w_pc' = "err_release"
    /\ UNCHANGED <<jobs_lock, u_pc, w_stage, s_job_id, s_pc, s_job, s_cur, s_last, s_event>>
    /\ JobsFrame

\* except: with jobs_lock (exit); the thread ends
ExceptRelease ==
    /\ w_pc = "err_release"
    /\ jobs_lock' = "free"
    /\ w_pc' = "finished"
    /\ UNCHANGED <<jobs, u_pc, w_stage, s_job_id, s_pc, s_job, s_cur, s_last, s_event>>
    /\ JobsFrame

\* processor.process_files returns (lote_id, total): with jobs_lock (enter)
SuccessAcquire ==
    /\ w_pc = "run"
    /\ w_stage = Len(Stages)
    /\ jobs_lock = "free"
    /\ jobs_lock' = "worker"
    /\ w_pc' = "ok_lote_id"
    /\ UNCHANGED <<jobs, u_pc, w_stage, s_job_id, s_pc, s_job, s_cur, s_last, s_event>>
    /\ JobsFrame

\* jobs[job_id]["lote_id"] = lote_id
SuccessLoteId ==
    /\ w_pc = "ok_lote_id"
    /\ jobs' = [jobs EXCEPT !.lote_id = ReturnedLote]
    /\ w_pc' = "ok_total"
    /\ UNCHANGED <<jobs_lock, u_pc, w_stage, s_job_id, s_pc, s_job, s_cur, s_last, s_event>>
    /\ JobsFrame

\* jobs[job_id]["total_registros"] = total
SuccessTotal ==
    /\ w_pc = "ok_total"
    /\ jobs' = [jobs EXCEPT !.total_registros = ReturnedTotal]
    /\ w_pc' = "ok_done"
    /\ UNCHANGED <<jobs_lock, u_pc, w_stage, s_job_id, s_pc, s_job, s_cur, s_last, s_event>>
    /\ JobsFrame

\* jobs[job_id]["done"] = True
SuccessDone ==
    /\ w_pc = "ok_done"
    /\ jobs' = [jobs EXCEPT !.done = TRUE]
    /\ w_pc' = "ok_progress"
    /\ UNCHANGED <<jobs_lock, u_pc, w_stage, s_job_id, s_pc, s_job, s_cur, s_last, s_event>>
    /\ JobsFrame

\* jobs[job_id]["progress"] = 100
SuccessProgress ==
    /\ w_pc = "ok_progress"
    /\ jobs' = [jobs EXCEPT !.progress = 100]
    /\ w_pc' = "ok_message"
    /\ UNCHANGED <<jobs_lock, u_pc, w_stage, s_job_id, s_pc, s_job, s_cur, s_last, s_event>>
    /\ JobsFrame

\* jobs[job_id]["message"] = f"... registros guardados en BD"
SuccessMessage ==
    /\ w_pc = "ok_message"
    /\ jobs' = [jobs EXCEPT !.message = "registros guardados en BD"]
    /\ w_pc' = "ok_release"
    /\ UNCHANGED <<jobs_lock, u_pc, w_stage, s_job_id, s_pc, s_job, s_cur, s_last, s_event>>
    /\ JobsFrame

\* with jobs_lock (exit); the thread ends
SuccessRelease ==
    /\ w_pc = "ok_release"
    /\ jobs_lock' = "free"
    /\ w_pc' = "finished"
    /\ UNCHANGED <<jobs, u_pc, w_stage, s_job_id, s_pc, s_job, s_cur, s_last, s_event>>
    /\ JobsFrame

\* GET /progress/<job_id>: the id of the response, or an id the registry
\* never held
StreamConnect ==
    /\ s_pc = "idle"
    /\ \E id \in {"job", "unknown"} :
          /\ id = "job" => u_pc = "responded"
          /\ s_job_id' = id
    /\ s_pc' = "loop"
    /\ s_last' = -1
    /\ UNCHANGED <<jobs, jobs_lock, u_pc, w_pc, w_stage, s_job, s_cur, s_event>>
    /\ JobsFrame

\* generate: more than max_wait seconds have passed
StreamTimeout ==
    /\ s_pc = "loop"
    /\ s_event' = TimeoutEvent
    /\ s_pc' = "closed"
    /\ UNCHANGED <<jobs, jobs_lock, u_pc, w_pc, w_stage, s_job_id, s_job, s_cur, s_last>>
    /\ JobsFrame

\* generate: with jobs_lock (enter)
StreamAcquire ==
    /\ s_pc = "loop"
    /\ jobs_lock = "free"
    /\ jobs_lock' = "stream"
    /\ s_pc' = "get"
    /\ UNCHANGED <<jobs, u_pc, w_pc, w_stage, s_job_id, s_job, s_cur, s_last, s_event>>
    /\ JobsFrame

\* generate: job = jobs.get(job_id), a reference to the stored dict
StreamGet ==
    /\ s_pc = "get"
    /\ s_job' = (s_job_id = "job" /\ jobs.exists)
    /\ s_pc' = "release"
    /\ UNCHANGED <<jobs, jobs_lock, u_pc, w_pc, w_stage, s_job_id, s_cur, s_last, s_event>>
    /\ JobsFrame

\* generate: with jobs_lock (exit)
StreamRelease ==
    /\ s_pc = "release"
    /\ jobs_lock' = "free"
    /\ s_pc' = "check"
    /\ UNCHANGED <<jobs, u_pc, w_pc, w_stage, s_job_id, s_job, s_cur, s_last, s_event>>
    /\ JobsFrame

\* generate: if not job: sleep, continue
StreamNoJob ==
    /\ s_pc = "check"
    /\ ~s_job
    /\ s_pc' = "loop"
    /\ UNCHANGED <<jobs, jobs_lock, u_pc, w_pc, w_stage, s_job_id, s_job, s_cur, s_last,
                   s_event>>
    /\ JobsFrame

\* generate: current_progress = job.get("progress", 0)
StreamReadProgress ==
    /\ s_pc = "check"
    /\ s_job
    /\ s_cur' = [s_cur EXCEPT !.progress = jobs.progress]
    /\ s_pc' = "rd_message"
    /\ UNCHANGED <<jobs, jobs_lock, u_pc, w_pc, w_stage, s_job_id, s_job, s_last, s_event>>
    /\ JobsFrame

\* generate: message = job.get("message", "")
StreamReadMessage ==
    /\ s_pc = "rd_message"
    /\ s_cur' = [s_cur EXCEPT !.message = jobs.message]
    /\ s_pc' = "rd_done"
    /\ UNCHANGED <<jobs, jobs_lock, u_pc, w_pc, w_stage, s_job_id, s_job, s_last, s_event>>
    /\ JobsFrame

\* generate: done = job.get("done", False)
StreamReadDone ==
    /\ s_pc = "rd_done"
    /\ s_cur' = [s_cur EXCEPT !.done = jobs.done]
    /\ s_pc' = "rd_error"
    /\ UNCHANGED <<jobs, jobs_lock, u_pc, w_pc, w_stage, s_job_id, s_job, s_last, s_event>>
    /\ JobsFrame

\* generate: error = job.get("error", None)
StreamReadError ==
    /\ s_pc = "rd_error"
    /\ s_cur' = [s_cur EXCEPT !.error = jobs.error]
    /\ s_pc' = "rd_lote_id"
    /\ UNCHANGED <<jobs, jobs_lock, u_pc, w_pc, w_stage, s_job_id, s_job, s_last, s_event>>
    /\ JobsFrame

\* generate: lote_id = job.get("lote_id")
StreamReadLoteId ==
    /\ s_pc = "rd_lote_id"
    /\ s_cur' = [s_cur EXCEPT !.lote_id = jobs.lote_id]
    /\ s_pc' = "rd_total"
    /\ UNCHANGED <<jobs, jobs_lock, u_pc, w_pc, w_stage, s_job_id, s_job, s_last, s_event>>
    /\ JobsFrame

\* generate: total_registros = job.get("total_registros", 0)
StreamReadTotal ==
    /\ s_pc = "rd_total"
    /\ s_cur' = [s_cur EXCEPT !.total_registros = jobs.total_registros]
    /\ s_pc' = "send"
    /\ UNCHANGED <<jobs, jobs_lock, u_pc, w_pc, w_stage, s_job_id, s_job, s_last, s_event>>
    /\ JobsFrame

\* generate: if done or error (both read as truth values)
StreamEnds == s_cur.done \/ s_cur.error # "None"

\* generate: yield the data when something changed; break when done or error
StreamSend ==
    /\ s_pc = "send"
    /\ s_cur.progress # s_last \/ StreamEnds
    /\ s_event' = s_cur
    /\ s_last' = s_cur.progress
    /\ s_pc' = IF StreamEnds THEN "closed" ELSE "loop"
    /\ UNCHANGED <<jobs, jobs_lock, u_pc, w_pc, w_stage, s_job_id, s_job, s_cur>>
    /\ JobsFrame

\* generate: nothing changed: sleep, next round
StreamSkip ==
    /\ s_pc = "send"
    /\ ~(s_cur.progress # s_last \/ StreamEnds)
    /\ s_pc' = "loop"
    /\ UNCHANGED <<jobs, jobs_lock, u_pc, w_pc, w_stage, s_job_id, s_job, s_cur, s_last,
                   s_event>>
    /\ JobsFrame

JobsNext ==
    \/ UploadReject
    \/ UploadAcquire
    \/ UploadCreate
    \/ UploadRelease
    \/ UploadStartThread
    \/ UploadRespond
    \/ CallbackAcquire
    \/ CallbackProgress
    \/ CallbackMessage
    \/ CallbackRelease
    \/ ProcessorRaises
    \/ ExceptAcquire
    \/ ExceptError
    \/ ExceptDone
    \/ ExceptRelease
    \/ SuccessAcquire
    \/ SuccessLoteId
    \/ SuccessTotal
    \/ SuccessDone
    \/ SuccessProgress
    \/ SuccessMessage
    \/ SuccessRelease
    \/ StreamConnect
    \/ StreamTimeout
    \/ StreamAcquire
    \/ StreamGet
    \/ StreamRelease
    \/ StreamNoJob
    \/ StreamReadProgress
    \/ StreamReadMessage
    \/ StreamReadDone
    \/ StreamReadError
    \/ StreamReadLoteId
    \/ StreamReadTotal
    \/ StreamSend
    \/ StreamSkip

SpecJobs == JobsInit /\ [][JobsNext]_vars

\* the steps of the request handler that registers the job
UploadNext ==
    \/ UploadAcquire
    \/ UploadCreate
    \/ UploadRelease
    \/ UploadStartThread
    \/ UploadRespond

\* the steps of the background thread, progress callback included
WorkerNext ==
    \/ CallbackAcquire
    \/ CallbackProgress
    \/ CallbackMessage
    \/ CallbackRelease
    \/ ProcessorRaises
    \/ ExceptAcquire
    \/ ExceptError
    \/ ExceptDone
    \/ ExceptRelease
    \/ SuccessAcquire
    \/ SuccessLoteId
    \/ SuccessTotal
    \/ SuccessDone
    \/ SuccessProgress
    \/ SuccessMessage
    \/ SuccessRelease

\* the steps of one round of the stream, the timeout apart
StreamNext ==
    \/ StreamAcquire
    \/ StreamGet
    \/ StreamRelease
    \/ StreamNoJob
    \/ StreamReadProgress
    \/ StreamReadMessage
    \/ StreamReadDone
    \/ StreamReadError
    \/ StreamReadLoteId
    \/ StreamReadTotal
    \/ StreamSend
    \/ StreamSkip

\* the same registry with threads that keep running: a handler or a thread
\* that can take a step again and again takes one (a thread that waits for
\* jobs_lock gets it, since the stream sleeps between two rounds), and the
\* processor either returns or raises
SpecJobsFair ==
    /\ JobsInit
    /\ [][JobsNext]_vars
    /\ WF_vars(UploadNext)
    /\ SF_vars(WorkerNext)
    /\ SF_vars(StreamNext)

(***************************************************************************)
(* Properties of the job registry (specification SpecJobs)                 *)
(***************************************************************************)

\* a step of the stream that reads one of the six fields of the job
StreamReadsField ==
    /\ s_pc \in {"check", "rd_message", "rd_done", "rd_error", "rd_lote_id", "rd_total"}
    /\ s_pc' \in {"rd_message", "rd_done", "rd_error", "rd_lote_id", "rd_total", "send"}

\* a step of the thread (callback included) that writes one of the fields
WorkerWritesField ==
    /\ w_pc \in {"cb_progress", "cb_message", "err_error", "err_done", "ok_lote_id",
                 "ok_total", "ok_done", "ok_progress", "ok_message"}
    /\ w_pc' # w_pc

\* C17: every read and every write of a field of the job's progress state
\* (progress, message, done, error, lote_id, total_registros) is a step of a
\* thread that holds jobs_lock: the background thread and the progress
\* callback when they write, the progress stream when it reads.
C17_AccessUnderLock ==
    [][ /\ WorkerWritesField => jobs_lock = "worker"
        /\ StreamReadsField => jobs_lock = "stream" ]_vars

(***************************************************************************)
(* Further properties of the orchestrator (specification Spec)             *)
(***************************************************************************)

\* _convert_dates has run and left a record without a date
HasNullDate ==
    /\ 80 \in Range(progress)
    /\ \E k \in 1..Len(base_df) : base_df[k].fecha_transaccion = NaT

\* C16: a record whose date text is no DD/MM/YYYY date does not fail the run
\* and is not dropped: unless the database fails for another reason, the run
\* returns, as many rows are persisted as records were merged, and the row of
\* that record has a null date.
C16_NullDateKept ==
    (pc = "done" /\ HasNullDate /\ error.tipo # "OperationalError") =>
        /\ outcome = "returned"
        /\ Len(transacciones) = Len(base_df)
        /\ \E t \in 1..Len(transacciones) : transacciones[t].fecha_transaccion = NaT

\* the rows of base_df that come from file k
RowsOfFile(k) == {i \in 1..Len(base_df) : base_df[i].archivo_origen = k}

\* C18: in the merged record list the records of each file form one
\* contiguous block; inside the block they are the records the read of the
\* file returned, in row order.
C18_FileBlocks ==
    \A k \in 1..Len(file_list) :
        /\ \A a, b \in RowsOfFile(k) : \A c \in a..b : c \in RowsOfFile(k)
        /\ \A a, b \in RowsOfFile(k) : a < b => base_df[a].fila < base_df[b].fila
        /\ base_df # <<>> =>
              /\ k \in handled
              /\ Cardinality(RowsOfFile(k)) =
                    IF FutureResult(k).raised THEN 0 ELSE Len(FutureResult(k).df)

\* C18 witness: the merged list holds the two records of one file and the
\* record of another
C18_Witness ==
    /\ Len(base_df) = 3
    /\ \E k, m \in 1..Len(file_list) :
          /\ k # m
          /\ Cardinality(RowsOfFile(k)) = 2
          /\ Cardinality(RowsOfFile(m)) = 1

\* the steps of process_files after _read_files, in the order of the code
LaterStages == <<"cuentas", "monetary", "balances", "dates", "insert_start", "insert">>

StageIndex(p) ==
    IF \E i \in 1..Len(LaterStages) : LaterStages[i] = p
    THEN CHOOSE i \in 1..Len(LaterStages) : LaterStages[i] = p
    ELSE 0

\* every read task of the run has finished
AllReadsFinished == \A k \in 1..Len(tasks) : tasks[k] = "done"

\* C22: the file reads are the only steps that run concurrently: the merge
\* and every step after it (account decoding, monetary normalization,
\* balances, dates, persistence) begin only when every read task of the run
\* has finished, and they run one at a time in the order of the code.
C22_OnlyReadsConcurrent ==
    [][ /\ ( \/ Len(base_df') # Len(base_df)
             \/ Len(transacciones') # Len(transacciones)
             \/ StageIndex(pc) > 0
             \/ StageIndex(pc') > 0 ) =>
              /\ AllReadsFinished
              /\ tasks' = tasks
              /\ handled = 1..Len(file_list)
        /\ (StageIndex(pc') > 0 /\ pc' # pc) =>
              /\ StageIndex(pc') = StageIndex(pc) + 1
              /\ StageIndex(pc) = 0 => pc = "as_completed"
        /\ (StageIndex(pc) > 0 /\ pc' # pc) =>
              \/ StageIndex(pc') = StageIndex(pc) + 1
              \/ pc' \in {"report100", "except"}
        /\ tasks' # tasks => pc \in {"read", "submitted", "as_completed"} ]_vars

\* C22 witness: the balance pass is about to run on the merge of two files
\* whose reads ran at the same time and ended against the order of the list
C22_Witness ==
    /\ pc = "balances"
    /\ Len(file_list) = 2
    /\ archivos_procesados = <<2, 1>>
    /\ AllReadsFinished

\* the persisted rows that carry the batch id of the run
RowsOfLote == {t \in 1..Len(transacciones) : transacciones[t].lote_id = LoteId}

\* C24: whenever the batch is "completado", the persisted rows that carry its
\* batch id are as many as its total_registros and as the merged records of
\* the run, and every persisted row of the run carries that batch id.
C24_CompletedCount ==
    lote.estado = "completado" =>
        /\ Cardinality(RowsOfLote) = lote.total_registros
        /\ Cardinality(RowsOfLote) = Len(base_df)
        /\ RowsOfLote = 1..Len(transacciones)

\* C24 witness: a completed batch of three records from two files, inserted
\* in more than one chunk
C24_Witness ==
    /\ lote.estado = "completado"
    /\ Len(transacciones) = 3
    /\ Len(archivos_procesados) = 2
    /\ chunk_size < 3

\* the account codes of the records of a frame
CuentasOf(frame) == {frame[i].cuenta_contable : i \in 1..Len(frame)}

\* an account code occurs in more than one of the files that yielded records
SharedCuenta ==
    \E a, b \in 1..Len(frames) : a # b /\ CuentasOf(frames[a]) \cap CuentasOf(frames[b]) # {}

\* C25: when no account code occurs in more than one of the submitted files,
\* the opening and closing balance of every record are those of the merge in
\* the order of the submitted list, whatever the order in which the reads
\* were taken: two runs over the same files can differ only when an account
\* code is shared between files.
C25_OrderIndependent ==
    (BalancePassed /\ ~SharedCuenta) =>
        \A k \in 1..Len(base_df) :
            \E m \in 1..Len(SubmissionOrderBalances) :
                /\ SubmissionOrderBalances[m].archivo_origen = base_df[k].archivo_origen
                /\ SubmissionOrderBalances[m].fila = base_df[k].fila
                /\ SubmissionOrderBalances[m].saldo_inicial = base_df[k].saldo_inicial
                /\ SubmissionOrderBalances[m].saldo_final = base_df[k].saldo_final

\* C25 witness: two files of different accounts whose reads were taken
\* against the order of the list, after the balance pass
C25_Witness ==
    /\ BalancePassed
    /\ ~SharedCuenta
    /\ archivos_procesados = <<2, 1>>
    /\ \E k \in 1..Len(base_df) : base_df[k].saldo_final # 0

\* the step of process_files that runs the running-balance pass
BalanceStep == pc = "balances" /\ pc' = "dates"

\* a record without its two balances
WithoutBalances(rec) == [rec EXCEPT !.saldo_inicial = 0, !.saldo_final = 0]

\* the records of one account, in the order of the frame
RowsOfCuenta(df, cuenta) == SelectSeq(df, LAMBDA rec : rec.cuenta_contable = cuenta)

\* C29: the running-balance pass changes only opening (on the records after
\* the first of each account) and closing: the number and the order of the
\* records, and every field of a record other than its two balances (account
\* code, debit and credit among them) stay as they were, the first record of
\* each account keeps its opening, and the balances of the records of an
\* account are those the pass gives to these records alone, whatever the
\* records of the other accounts are.
C29_BalanceFrame ==
    [][BalanceStep =>
          /\ Len(base_df') = Len(base_df)
          /\ \A k \in 1..Len(base_df) :
                /\ WithoutBalances(base_df'[k]) = WithoutBalances(base_df[k])
                /\ PrevOfCuenta(k) = 0 => base_df'[k].saldo_inicial = base_df[k].saldo_inicial
          /\ \A cuenta \in CuentasOf(base_df) :
                RowsOfCuenta(base_df', cuenta) =
                    calculate_balances(RowsOfCuenta(base_df, cuenta))]_vars

\* C29 witness: the pass has run over records of two accounts at least, one
\* of them with a first record that opens at a nonzero amount and with a
\* later record whose opening the pass has replaced
C29_Witness ==
    /\ pc = "dates"
    /\ Cardinality(CuentasOf(base_df)) >= 2
    /\ \E k \in 1..Len(base_df) :
          /\ PrevOfCuenta(k) = 0
          /\ base_df[k].saldo_inicial # 0
    /\ \E k \in 1..Len(base_df) :
          /\ PrevOfCuenta(k) # 0
          /\ to_numeric_fast(MergedRaw[k].saldo_inicial) # base_df[k].saldo_inicial

\* how many times the file k stands in a list of files
TimesIn(list, k) == Cardinality({i \in 1..Len(list) : list[i] = k})

\* the read stage is over: the loop of _read_files has taken every future
ReadStageOver == Len(file_list) > 0 /\ handled = 1..Len(file_list)

\* C26: after the read stage every submitted file is recorded exactly once,
\* in exactly one of archivos_procesados and archivos_fallidos, so that their
\* lengths sum to the number of files; a file is in archivos_procesados
\* exactly when its read returned at least one record, in archivos_fallidos
\* when it returned none or raised. Before that, the files not yet taken are
\* in neither list.
C26_ProcessedOrFailed ==
    /\ \A k \in 1..Len(file_list) :
          LET yielded == ~FutureResult(k).raised /\ FutureResult(k).df # <<>>
          IN /\ TimesIn(archivos_procesados, k) = IF k \in handled /\ yielded THEN 1 ELSE 0
             /\ TimesIn(archivos_fallidos, k) = IF k \in handled /\ ~yielded THEN 1 ELSE 0
    /\ ReadStageOver =>
          Len(archivos_procesados) + Len(archivos_fallidos) = Len(file_list)
    /\ Len(frames) = Len(archivos_procesados)

\* C26 witness: the read stage of two files is over, one file processed and
\* one, whose read returned no record, failed
C26_Witness ==
    /\ ReadStageOver
    /\ Len(file_list) = 2
    /\ Len(archivos_procesados) = 1
    /\ Len(archivos_fallidos) = 1
    /\ ~FutureResult(archivos_fallidos[1]).raised

(***************************************************************************)
(* Further properties of the reader (specification SpecReader)             *)
(***************************************************************************)

\* the row of 0-based index idx holds the text "SALDO INICIAL CUENTA"
IsSaldoInicialRow(idx) == Contains(Upper(RowText(ReaderRaw[idx + 1])), SaldoInicialMarker)

\* no "SALDO INICIAL CUENTA" row lies between the most recent marker row
\* above the row of index idx and that row
NoSaldoSinceMarker(idx) ==
    /\ MarkersAbove(idx) # {}
    /\ \A m \in (LastMarkerAbove(idx) + 1)..(idx - 1) : ~IsSaldoInicialRow(m)

\* the loop body runs on the row of index r_idx
RowStep == r_pc = "rows" /\ r_idx' = r_idx + 1

\* C19: a "CUENTA CONTABLE:" marker row sets the active account code and
\* name, resets the stored opening balance to null and emits no transaction;
\* a row with 2 or 3 monetary cells that follows a marker row with no
\* "SALDO INICIAL CUENTA" row in between is emitted with an empty opening
\* balance, never with the one of the previous section.
C19_MarkerResets ==
    [][ RowStep =>
          /\ IsMarkerRow(r_idx) =>
                LET cn == parse_cuenta_line(Strip(CellStr(ReaderRaw[r_idx + 1][1])))
                IN r_ctx' = [cuenta |-> cn[1], nombre |-> cn[2], saldo |-> None,
                             records |-> r_ctx.records]
          /\ ( /\ Emits
               /\ Len(MonetaryTexts(ReaderRaw[r_idx + 1])) \in {2, 3}
               /\ NoSaldoSinceMarker(r_idx) ) =>
                r_ctx'.records[Len(r_ctx'.records)].saldo_inicial = <<>> ]_vars

\* C19 witness: a finished traversal in which a section with an opening
\* balance is followed by a second marker row and a record, of 2 or 3
\* monetary cells, whose opening balance is empty
C19_Witness ==
    /\ r_pc = "done"
    /\ \E i \in 1..Len(r_df) :
          /\ Len(MonetaryTexts(ReaderRaw[r_df[i].fila + 1])) \in {2, 3}
          /\ NoSaldoSinceMarker(r_df[i].fila)
          /\ r_df[i].saldo_inicial = <<>>
          /\ \E m \in 0..(LastMarkerAbove(r_df[i].fila) - 1) :
                /\ IsSaldoInicialRow(m)
                /\ MarkersAbove(m) # {}
                /\ Truthy(extract_saldo_inicial(ReaderRaw[m + 1]))

\* a text of the shape yyyymmdd, which pd.to_datetime reads as a date
IsCompactDate(s) ==
    /\ Len(s) = 8
    /\ \A i \in 1..8 : s[i] \in Digits
    /\ DigitsVal(SubSeq(s, 5, 6)) \in 1..12
    /\ DigitsVal(SubSeq(s, 7, 8)) \in 1..31

\* pd.to_datetime(value) succeeds
ParsesAsDate(value) ==
    /\ ~isna(value)
    /\ to_datetime_default(Strip(value)).ok \/ IsCompactDate(Strip(value))

\* date-like in the words of C20
DateLikeAsClaimed(value) ==
    /\ ~isna(value)
    /\ Len(Strip(value)) > 0
    /\ \/ Contains(Strip(value), <<"/">>)
       \/ Contains(Strip(value), <<"-">>)
       \/ ParsesAsDate(value)

\* the loop body hands the row of index r_idx to _parse_transaction_row
ParseRowStep == RowStep /\ RowBranch(r_ctx, ReaderRaw[r_idx + 1]) = "transaccion"

\* C20: _parse_transaction_row keeps a row as a transaction candidate exactly
\* when its column 0 is date-like, that is, when the text of the cell holds
\* "/" or "-" or the cell parses as a date: such a row with at least 2
\* amounts is emitted, and a row whose column 0 is empty or not date-like is
\* never emitted.
C20_DateLikeAccepted ==
    [][ ParseRowStep =>
          LET row == ReaderRaw[r_idx + 1]
          IN /\ Emits => DateLikeAsClaimed(row[1])
             /\ ( /\ DateLikeAsClaimed(row[1])
                  /\ Len(classify_columns(analyze_columns(row)).monetary_cols) >= 2 ) =>
                   Emits ]_vars

\* the non-empty cells of columns 2..14 of a row, in column order
FilledCells(row) == SelectSeq(analyze_columns(row), LAMBDA c : ~c.is_empty)

\* a numeric cell that is not monetary-tagged and holds a whole number
PlainInteger(c) == c.is_numeric /\ ~c.is_monetary /\ c.numeric_value % 100 = 0

\* the positions, among the filled cells, of the plain whole numbers
PlainIntegerAt(row) ==
    {i \in 1..Len(FilledCells(row)) : PlainInteger(FilledCells(row)[i])}

\* the payment-order cell in the words of C21: the first of them, 0 when none
OrderCellAsClaimed(row) ==
    IF PlainIntegerAt(row) = {} THEN 0
    ELSE CHOOSE i \in PlainIntegerAt(row) : \A j \in PlainIntegerAt(row) : i <= j

\* the cells that count as monetary in the words of C21
MonetaryAsClaimed(row) ==
    {i \in 1..Len(FilledCells(row)) :
        FilledCells(row)[i].is_numeric /\ i # OrderCellAsClaimed(row)}

\* C21: of the non-empty cells of columns 2..14 the first numeric cell that
\* is not monetary-tagged and is integer-valued is the payment order, every
\* other numeric cell counts as monetary and every non-numeric cell as text;
\* a date-like row is emitted exactly when at least 2 cells count as monetary.
C21_ColumnRoles ==
    [][ (ParseRowStep /\ is_date_like(ReaderRaw[r_idx + 1][1])) =>
          LET row   == ReaderRaw[r_idx + 1]
              cells == FilledCells(row)
              op    == OrderCellAsClaimed(row)
              texts == SelectSeq(cells, LAMBDA c : ~c.is_numeric)
          IN /\ Emits <=> Cardinality(MonetaryAsClaimed(row)) >= 2
             /\ Emits =>
                   LET rec == r_ctx'.records[Len(r_ctx'.records)]
                   IN /\ rec.orden_pago = IF op = 0 THEN <<>> ELSE cells[op].value
                      /\ <<rec.beneficiario, rec.descripcion>> = extract_text_fields(texts) ]_vars

\* numeric-like in the words of C23: all digits once the thousands
\* separators ("," and ".") and a sign in front are removed
NumericLikeAsClaimed(text) ==
    LET body == IF Len(text) > 0 /\ text[1] = "-" THEN Tail(text) ELSE text
    IN IsDigitStr(RemoveChars(body, {",", "."}))

\* the cells of a row that are non-empty and numeric-like, by position
NumericLikeAt(row) ==
    {i \in 1..Len(row) : NumericLikeAsClaimed(Strip(CellStr(row[i])))}

\* C23: a row whose text holds "SALDO INICIAL CUENTA", in any case, read
\* while an account is active, emits no transaction and leaves the account
\* as it is; the stored opening balance becomes the first cell from the left
\* that is non-empty and numeric-like.
C23_OpeningStored ==
    [][ ( /\ RowStep
          /\ IsSaldoInicialRow(r_idx)
          /\ ~IsMarkerRow(r_idx)
          /\ Truthy(r_ctx.cuenta) ) =>
          LET row == ReaderRaw[r_idx + 1]
          IN /\ r_ctx'.records = r_ctx.records
             /\ r_ctx'.cuenta = r_ctx.cuenta
             /\ r_ctx'.nombre = r_ctx.nombre
             /\ NumericLikeAt(row) # {} =>
                   \E i \in NumericLikeAt(row) :
                       /\ \A j \in NumericLikeAt(row) : i <= j
                       /\ r_ctx'.saldo = Strip(CellStr(row[i])) ]_vars

(***************************************************************************)
(* Further properties of the job registry (specification SpecJobs)         *)
(***************************************************************************)

\* the last event yielded is one built from the fields of the job
FieldEvent == s_event # NoEvent /\ s_event # TimeoutEvent

\* C27: every event of the progress stream is a consistent snapshot of the
\* job: an event with done = true and error = null has progress = 100 and a
\* lote_id that is not null, whatever the interleaving of the stream with the
\* last update of the background thread.
C27_ConsistentSnapshot ==
    (FieldEvent /\ s_event.done /\ s_event.error = "None") =>
        /\ s_event.progress = 100
        /\ s_event.lote_id # 0

\* the job is registered and its record says done
JobDone == jobs.exists /\ jobs.done

\* the registered job is done with a batch or with an error text
JobEnded == JobDone /\ (jobs.lote_id # 0 \/ jobs.error # "None")

\* the stream of the registered job has ended
StreamClosed == s_pc = "closed" /\ s_job_id = "job"

\* the event the stream yielded last says done
LastEventDone == s_event # NoEvent /\ s_event.done

\* C28: every job the upload registers ends with done = true, with lote_id
\* set or with error set; done never goes back to false; a progress stream
\* connected to the job yields a last event with done = true and ends.
C28_JobEndsDone ==
    /\ jobs.exists ~> JobEnded
    /\ [][JobDone => JobDone']_vars
    /\ (s_pc = "loop" /\ s_job_id = "job") ~> StreamClosed
    /\ [](StreamClosed => LastEventDone)

(***************************************************************************)
(* The payment-order pass of process_files_to_database (scripts/utils.py)  *)
(***************************************************************************)

\* the longest merge drawn
MaxMerged == 2

T_88 == <<"8", "8">>

T_nd == <<"n", "d">>

T_ND == <<"N", "D">>

\* the account codes of the records: the two accounts of the sheets above
MergeCuentas == {<<"1", "1">>, <<"2", "2">>}

\* the values of the poliza column: none, and two voucher numbers
MergePolizas == {<<>>, T_P1, T_P2}

\* the values of the orden_pago column: none, two orders, and "no data"
\* written in both cases, as the reader of macro files passes it on
MergeOrdenes == {<<>>, T_77, T_88, T_nd, T_ND}

\* the records of a frame, with the columns the pass reads and the account
MergeRecords ==
    [cuenta_contable : MergeCuentas, poliza : MergePolizas, orden_pago : MergeOrdenes]

\* df['archivo_origen'] = filename, the file of frame k being named k
WithOrigin(rows, k) ==
    [i \in 1..Len(rows) |->
        [cuenta_contable |-> rows[i].cuenta_contable, poliza |-> rows[i].poliza,
         orden_pago |-> rows[i].orden_pago, archivo_origen |-> k]]

\* the frames list: the records of one file, or of two files cut at `cut`
FramesOf(rows, cut) ==
    IF cut = 0 THEN <<WithOrigin(rows, 1)>>
    ELSE <<WithOrigin(SubSeq(rows, 1, cut), 1),
           WithOrigin(SubSeq(rows, cut + 1, Len(rows)), 2)>>

\* invalid_op
invalid_op ==
    {<<>>, <<"n", "/", "a">>, <<"n", "a">>, <<"n", ".", "d", ".">>, T_nd,
     <<"n", "o", "n", "e">>}

\* Series.fillna("").astype(str).str.strip() on one value
CleanText(x) == IF x = NaN \/ x = None THEN <<>> ELSE Strip(x)

\* base["orden_pago"].where(~base["orden_pago"].str.lower().isin(invalid_op), "")
\* on one value
BlankInvalid(x) == IF Lower(x) \in invalid_op THEN <<>> ELSE x

\* lines 793-799: the two columns cleaned
CleanColumns(base) ==
    [i \in 1..Len(base) |->
        [base[i] EXCEPT !.poliza = CleanText(@),
                        !.orden_pago = BlankInvalid(CleanText(@))]]

RECURSIVE last_non_empty(_)
\* a variant of _first_non_empty that keeps the last value of the series that
\* is not empty: the order of C30 tells the two apart
last_non_empty(series) ==
    IF Len(series) = 0 THEN <<>>
    ELSE IF Len(series[Len(series)]) > 0 THEN series[Len(series)]
    ELSE last_non_empty(SubSeq(series, 1, Len(series) - 1))

RECURSIVE _first_non_empty(_)
\* _first_non_empty(series)
_first_non_empty(series) ==
    IF Len(series) = 0 THEN <<>>
    ELSE IF Len(Head(series)) > 0 THEN Head(series)
    ELSE _first_non_empty(Tail(series))

\* the orden_pago values of the group of one poliza, in the order of base
GroupSeries(base, poliza) ==
    LET group == SelectSeq(base, LAMBDA rec : rec.poliza = poliza)
    IN [i \in 1..Len(group) |-> group[i].orden_pago]

\* base.groupby("poliza")["orden_pago"].apply(_first_non_empty)
op_por_poliza(base) ==
    [poliza \in {base[i].poliza : i \in 1..Len(base)} |->
        _first_non_empty(GroupSeries(base, poliza))]

\* lines 808-811: base["poliza"].map(op_por_poliza).where(base["poliza"] != "",
\* base["orden_pago"])
MapOrdenes(base) ==
    [i \in 1..Len(base) |->
        [base[i] EXCEPT !.orden_pago =
            IF base[i].poliza # <<>> THEN op_por_poliza(base)[base[i].poliza] ELSE @]]

\* lines 791-811 of process_files_to_database
PropagateOrdenes(frames_in) == MapOrdenes(CleanColumns(pd_concat(frames_in)))

MergeInit ==
    /\ \E rows \in (SeqsUpTo(MergeRecords, MaxMerged) \ {<<>>}) :
          \E cut \in 0..(Len(rows) - 1) : m_frames = FramesOf(rows, cut)
    /\ m_pc = "start"
    /\ m_base = <<>>
    /\ DecoderIdle
    /\ NumericIdle
    /\ JobsIdle
    /\ ReaderIdle
    /\ ProcessIdle

\* the merge and the payment-order pass run
MergeCall ==
    /\ m_pc = "start"
    /\ m_base' = PropagateOrdenes(m_frames)
    /\ m_pc' = "done"
    /\ UNCHANGED <<m_frames, decoder_vars, numeric_vars, job_vars, reader_vars, process_vars>>

MergeNext == MergeCall

SpecMerge == MergeInit /\ [][MergeNext]_vars

(***************************************************************************)
(* Properties of the payment-order pass (specification SpecMerge)          *)
(***************************************************************************)

\* the records as merged, before the pass
MergedIn == pd_concat(m_frames)

\* a payment order counts: it is not empty and, in lowercase, not a marker
ValidOrden(x) == Strip(x) # <<>> /\ Lower(Strip(x)) \notin invalid_op

\* a payment order counts when it is none of the listed values as written
ValidOrdenAsWritten(x) == x \notin invalid_op

\* the earliest record of the poliza of record k with a payment order that
\* counts, 0 when there is none
FirstValidOf(k, Valid(_)) ==
    LET same == {j \in 1..Len(MergedIn) :
                    /\ Strip(MergedIn[j].poliza) = Strip(MergedIn[k].poliza)
                    /\ Valid(MergedIn[j].orden_pago)}
    IN IF same = {} THEN 0 ELSE CHOOSE j \in same : \A o \in same : j <= o

\* C30 as stated: a record with a poliza gets the first payment order of its
\* poliza that is none of the listed values, and a record without poliza
\* keeps the payment order it had.
C30_AsStated ==
    m_pc = "done" =>
        /\ Len(m_base) = Len(MergedIn)
        /\ \A k \in 1..Len(m_base) :
              IF MergedIn[k].poliza # <<>>
              THEN /\ FirstValidOf(k, ValidOrdenAsWritten) # 0
                   /\ m_base[k].orden_pago =
                          MergedIn[FirstValidOf(k, ValidOrdenAsWritten)].orden_pago
                   \/ /\ FirstValidOf(k, ValidOrdenAsWritten) = 0
                      /\ m_base[k].orden_pago = <<>>
              ELSE m_base[k].orden_pago = MergedIn[k].orden_pago

\* C30: after the merge, a record with a poliza gets the first payment order,
\* in merged order, among the records of the same poliza, whatever their
\* account and file, that is not empty and is not, in lowercase, one of the
\* markers of invalid_op; it gets the empty text when there is none; a record
\* without poliza keeps its own payment order if that one counts, and gets
\* the empty text if not. Nothing else of a record changes.
C30_FirstValidOrden ==
    m_pc = "done" =>
        /\ Len(m_base) = Len(MergedIn)
        /\ \A k \in 1..Len(m_base) :
              LET first == FirstValidOf(k, ValidOrden)
                  own   == MergedIn[k].orden_pago
              IN /\ m_base[k].cuenta_contable = MergedIn[k].cuenta_contable
                 /\ m_base[k].archivo_origen = MergedIn[k].archivo_origen
                 /\ m_base[k].poliza = Strip(MergedIn[k].poliza)
                 /\ m_base[k].orden_pago =
                        IF Strip(MergedIn[k].poliza) # <<>>
                        THEN IF first = 0 THEN <<>> ELSE Strip(MergedIn[first].orden_pago)
                        ELSE IF ValidOrden(own) THEN Strip(own) ELSE <<>>

\* C30 witness: a record gets the payment order of an earlier record of its
\* poliza that belongs to another account and another file, although it had
\* a payment order of its own
C30_Witness ==
    /\ m_pc = "done"
    /\ \E j, k \in 1..Len(m_base) :
          /\ j < k
          /\ MergedIn[k].poliza # <<>>
          /\ MergedIn[j].poliza = MergedIn[k].poliza
          /\ MergedIn[j].cuenta_contable # MergedIn[k].cuenta_contable
          /\ MergedIn[j].archivo_origen # MergedIn[k].archivo_origen
          /\ ValidOrden(MergedIn[k].orden_pago)
          /\ MergedIn[k].orden_pago # MergedIn[j].orden_pago
          /\ m_base[k].orden_pago = MergedIn[j].orden_pago

====
